---- MODULE Spec2Model ----
(***************************************************************************)
(* Quadtree-based even-odd coverage engine: the abstract line segment,     *)
(* the four subdivision kernels K1..K4, the level-order quadtree driver    *)
(* and the per-pixel rasterizer of the CPU reference implementation.       *)
(*                                                                         *)
(* Coordinates are binary fixed-point numbers with SubBits fractional      *)
(* bits: the integer v stands for the f32 value v / Unit.  Every f32       *)
(* operation of the source on the inputs drawn here (sums, products,       *)
(* halving) is exact on such values, so integer arithmetic models it.      *)
(***************************************************************************)
EXTENDS Integers, Sequences, FiniteSets, TLC

VARIABLES
    abs_segments,   \* the segment list handed to QuadTree::new
    root_bbox,      \* the root bounding box
    max_depth,      \* depth cap
    min_seg,        \* split threshold
    nodes,          \* node arena (Vec<QuadCell>)
    leaf_entries,   \* flat leaf entries buffer
    cells_cur,      \* frontier: cell ids
    entries_cur,    \* frontier: entries
    ranges_cur,     \* frontier: one range into entries_cur per cell
    cells_next,
    entries_next,
    ranges_next,
    depth,          \* loop variable of the level loop
    idx,            \* position in cells_cur (1-based)
    pc,             \* position of the driver
    p0, p1, sample, seg_fwd, seg_rev,  \* inputs and results of the segment checks
    out,            \* result of the last call on the constructed segment
    gpu             \* the GPU driver: host position, buffers, submitted and executed kernels

vars == <<abs_segments, root_bbox, max_depth, min_seg, nodes, leaf_entries,
          cells_cur, entries_cur, ranges_cur, cells_next, entries_next,
          ranges_next, depth, idx, pc, p0, p1, sample, seg_fwd, seg_rev, out, gpu>>

treeVars == <<abs_segments, root_bbox, max_depth, min_seg, nodes, leaf_entries,
              cells_cur, entries_cur, ranges_cur, cells_next, entries_next,
              ranges_next, depth, idx>>

segVars == <<p0, p1, sample, seg_fwd, seg_rev, out, gpu>>

----------------------------------------------------------------------------
(* Bounds of the model *)

SubBits == 1
MaxDepth == 2
MaxMinSeg == 1
MaxCoord == 2

RECURSIVE Pow2(_)
Pow2(n) == IF n = 0 THEN 1 ELSE 2 * Pow2(n - 1)

Unit == Pow2(SubBits)

None == <<>>

Abs(v) == IF v < 0 THEN -v ELSE v

Min(u, v) == IF u <= v THEN u ELSE v

Max(u, v) == IF u >= v THEN u ELSE v

----------------------------------------------------------------------------
(* geometry/rect.rs *)

F32_MAX == 2000000000

checked_f32_sub(u, v) == IF u - v > -F32_MAX /\ u - v < F32_MAX THEN <<u - v>> ELSE None

Rect_from_ltrb(l, t, r, b) ==
    IF l <= r /\ t <= b
    THEN IF checked_f32_sub(r, l) = None \/ checked_f32_sub(b, t) = None
         THEN None
         ELSE [left |-> l, top |-> t, right |-> r, bottom |-> b]
    ELSE None

Rect_width(rc) == rc.right - rc.left

Rect_intersect(r1, r2) ==
    Rect_from_ltrb(Max(r1.left, r2.left), Max(r1.top, r2.top),
                   Min(r1.right, r2.right), Min(r1.bottom, r2.bottom))

----------------------------------------------------------------------------
(* abstract_segment.rs *)

NW == 0
NE == 1
SW == 2
SE == 3
Horizontal == 4

direction_svg(dx, dy) ==
    IF dy = 0 THEN Horizontal
    ELSE IF dx >= 0 /\ dy < 0 THEN NE
    ELSE IF dx < 0 /\ dy < 0 THEN NW
    ELSE IF dx >= 0 THEN SE
    ELSE SW

line_bbox(a, b) ==
    [left |-> Min(a[1], b[1]), top |-> Min(a[2], b[2]),
     right |-> Max(a[1], b[1]), bottom |-> Max(a[2], b[2])]

Canon_identity(a, b, c) == <<a, b, c>>

Canon_a_only(a, b, c) ==
    IF a < 0 THEN <<-a, -b, -c>> ELSE <<a, b, c>>

Canon(a, b, c) ==
    IF a < 0 \/ (a = 0 /\ b < 0) THEN <<-a, -b, -c>> ELSE <<a, b, c>>

AbstractLineSegment_new(q0, q1, path_id) ==
    LET abc == Canon(q0[2] - q1[2], q1[1] - q0[1], q0[1] * q1[2] - q1[1] * q0[2])
    IN  [path_idx |-> path_id,
         bbox |-> line_bbox(q0, q1),
         direction |-> direction_svg(q1[1] - q0[1], q1[2] - q0[2]),
         a |-> abc[1], b |-> abc[2], c |-> abc[3],
         x0 |-> q0[1], y0 |-> q0[2], x1 |-> q1[1], y1 |-> q1[2]]

eval(seg, x, y) == seg.a * x + seg.b * y + seg.c

is_left(seg, x, y) == eval(seg, x, y) < 0

going_right(seg) == seg.direction \in {NE, SE, Horizontal}

going_up(seg) == seg.direction \in {NW, NE}

hit_chull(seg, x, y) == -1

is_inside_bb(seg, bb) ==
    /\ bb.left < seg.bbox.left /\ bb.top < seg.bbox.top
    /\ bb.right > seg.bbox.right /\ bb.bottom > seg.bbox.bottom

intersect_with_bb(seg, bb) ==
    IF is_inside_bb(seg, bb) \/ Rect_intersect(seg.bbox, bb) = None THEN FALSE
    ELSE \/ eval(seg, bb.left, bb.top) * eval(seg, bb.right, bb.top) < 0
         \/ eval(seg, bb.right, bb.top) * eval(seg, bb.right, bb.bottom) < 0
         \/ eval(seg, bb.left, bb.bottom) * eval(seg, bb.right, bb.bottom) < 0
         \/ eval(seg, bb.left, bb.top) * eval(seg, bb.left, bb.bottom) < 0

get_shortcut_base(seg) ==
    IF seg.x0 > seg.x1 THEN <<seg.x0, seg.y0>> ELSE <<seg.x1, seg.y1>>

hit_shortcut_inclusive(seg, cell, sx, sy) ==
    IF seg.b = 0 THEN FALSE
    ELSE LET y0 == IF seg.x0 > seg.x1 THEN seg.y0 ELSE seg.y1
         IN  IF sy > y0 THEN FALSE ELSE sx < cell.right

hit_shortcut(seg, cell, sx, sy) ==
    IF seg.b = 0 THEN FALSE
    ELSE LET y0 == IF seg.x0 > seg.x1 THEN seg.y0 ELSE seg.y1
         IN  IF sy >= y0 THEN FALSE ELSE sx < cell.right

----------------------------------------------------------------------------
(* cell_entry.rs: entry flags and child positions *)

EMPTY == 0
ABSTRACT == 1
WINDING_INCREMENT == 8

TOP_LEFT == 0
TOP_RIGHT == 1
BOTTOM_LEFT == 2
BOTTOM_RIGHT == 3

(* 0xFFFF_FFFF, above every index of the model; TLC integers are 32-bit signed *)
NONE_U32 == 2147483647

CellOrder == <<TOP_LEFT, TOP_RIGHT, BOTTOM_LEFT, BOTTOM_RIGHT>>

(* the band taken closed at the top: sy < bb.top in place of sy <= bb.top *)
half_open_eval_closed_band(seg, sx, sy) ==
    LET bb == seg.bbox
    IN  IF sy > bb.bottom \/ sy < bb.top
        THEN IF ~(bb.left <= sx /\ sx < bb.right)
             THEN 0
             ELSE LET same_dir == (going_right(seg) = going_up(seg))
                  IN  IF sy < bb.top
                      THEN (IF same_dir THEN -1 ELSE 1)
                      ELSE (IF same_dir THEN 1 ELSE -1)
        ELSE IF sx >= bb.right THEN 1
        ELSE IF sx < bb.left THEN -1
        ELSE IF eval(seg, sx, sy) < 0 THEN -1 ELSE 1

half_open_eval(seg, sx, sy) ==
    LET bb == seg.bbox
    IN  IF sy > bb.bottom \/ sy <= bb.top
        THEN IF ~(bb.left <= sx /\ sx < bb.right)
             THEN 0
             ELSE LET same_dir == (going_right(seg) = going_up(seg))
                  IN  IF sy <= bb.top
                      THEN (IF same_dir THEN -1 ELSE 1)
                      ELSE (IF same_dir THEN 1 ELSE -1)
        ELSE IF sx >= bb.right THEN 1
        ELSE IF sx < bb.left THEN -1
        ELSE IF hit_chull(seg, sx, sy) # -1
             THEN (IF hit_chull(seg, sx, sy) = 1 THEN -1 ELSE 1)
        ELSE IF eval(seg, sx, sy) < 0 THEN -1 ELSE 1

(* the far probe taken at the left edge of the parent *)
far_x_at_left(pb) == pb.left

far_x(pb) == pb.right + (Rect_width(pb) + Unit) * 1024

(* The 18 crossing flags, cross[0] .. cross[17]. *)
EdgeIntersectionInfo_new(seg, pb, mid) ==
    LET fx      == far_x(pb)
        sign_l  == half_open_eval(seg, pb.left, mid[2])
        sign_c  == half_open_eval(seg, mid[1], mid[2])
        sign_r  == half_open_eval(seg, pb.right, mid[2])
        sign_i  == half_open_eval(seg, fx, mid[2])
        sign_bl == half_open_eval(seg, pb.left, pb.bottom)
        sign_b  == half_open_eval(seg, mid[1], pb.bottom)
        sign_br == half_open_eval(seg, pb.right, pb.bottom)
        sign_bi == half_open_eval(seg, fx, pb.bottom)
        sign_tl == half_open_eval(seg, pb.left, pb.top)
        sign_t  == half_open_eval(seg, mid[1], pb.top)
        sign_tr == half_open_eval(seg, pb.right, pb.top)
        sign_ti == half_open_eval(seg, fx, pb.top)
    IN  [k \in 0..17 |->
           CASE k = 0  -> sign_bl * sign_b < 0
             [] k = 1  -> sign_b * sign_br < 0
             [] k = 2  -> sign_bl * sign_l < 0
             [] k = 3  -> sign_b * sign_c < 0
             [] k = 4  -> sign_br * sign_r < 0
             [] k = 5  -> sign_l * sign_c < 0
             [] k = 6  -> sign_c * sign_r < 0
             [] k = 7  -> sign_tl * sign_l < 0
             [] k = 8  -> sign_t * sign_c < 0
             [] k = 9  -> sign_tr * sign_r < 0
             [] k = 10 -> sign_tl * sign_t < 0
             [] k = 11 -> sign_t * sign_tr < 0
             [] k = 12 -> sign_br * sign_bi < 0
             [] k = 13 -> sign_r * sign_i < 0
             [] k = 14 -> sign_tr * sign_ti < 0
             [] k = 15 -> sign_t * sign_ti < 0
             [] k = 16 -> sign_c * sign_i < 0
             [] k = 17 -> sign_b * sign_bi < 0]

classify_child(x, y, mid) ==
    IF x <= mid[1]
    THEN (IF y <= mid[2] THEN TOP_LEFT ELSE BOTTOM_LEFT)
    ELSE (IF y <= mid[2] THEN TOP_RIGHT ELSE BOTTOM_RIGHT)

contains_in_parent(x, y, bound) ==
    x >= bound.left /\ x <= bound.right /\ y >= bound.top /\ y <= bound.bottom

B2I(b) == IF b THEN 1 ELSE 0

(* split_info is the bitfield fill | up << 4 | down << 8, kept as three sets of children. *)
has_any_fill(split_info, cell) == split_info.fill # {}

has_fill(split_info, cell) == cell \in split_info.fill

has_up(split_info, cell) == cell \in split_info.up

has_down(split_info, cell) == cell \in split_info.down

SplitData_new(seg, shortcut, e, bound, mid) ==
    LET gu == IF seg.y0 > seg.y1 THEN 1 ELSE -1
        gr == IF seg.x0 < seg.x1 THEN 1 ELSE -1
        base == get_shortcut_base(seg)
        sc == IF shortcut = -1 THEN -1 ELSE 1
        scTop == shortcut # 0
                 /\ ~(base[2] <= bound.top \/ base[1] < bound.left)
                 /\ base[1] >= bound.right /\ base[2] >= mid[2]
        scBot == scTop /\ base[2] >= bound.bottom
        fillSet ==
            (IF contains_in_parent(seg.x0, seg.y0, bound)
             THEN {classify_child(seg.x0, seg.y0, mid)} ELSE {})
            \cup (IF contains_in_parent(seg.x1, seg.y1, bound)
                  THEN {classify_child(seg.x1, seg.y1, mid)} ELSE {})
            \cup (IF e[0] \/ e[2] \/ e[3] \/ e[5] THEN {BOTTOM_LEFT} ELSE {})
            \cup (IF e[1] \/ e[3] \/ e[4] \/ e[6] THEN {BOTTOM_RIGHT} ELSE {})
            \cup (IF e[5] \/ e[7] \/ e[8] \/ e[10] THEN {TOP_LEFT} ELSE {})
            \cup (IF e[6] \/ e[8] \/ e[9] \/ e[11] THEN {TOP_RIGHT} ELSE {})
        shBL == e[3] /\ ~e[16] /\ ~e[17]
        shBR == e[4] /\ ~e[13] /\ ~e[12]
        shTL == e[8] /\ ~e[15] /\ ~e[16]
        shTR == e[9] /\ ~e[14] /\ ~e[13]
        marked == (IF shBL THEN {BOTTOM_LEFT} ELSE {}) \cup (IF shBR THEN {BOTTOM_RIGHT} ELSE {})
                  \cup (IF shTL THEN {TOP_LEFT} ELSE {}) \cup (IF shTR THEN {TOP_RIGHT} ELSE {})
        wTL == B2I(e[6]) * gu + B2I(e[8] /\ ~e[15] /\ e[16]) * gr + B2I(e[13]) * gu
               + B2I(scTop) * sc
        wTR == B2I(e[9] /\ ~e[14] /\ e[13]) * gr + B2I(e[13]) * gu + B2I(scTop) * sc
        wBL == B2I(e[1]) * gu + B2I(e[3] /\ ~e[16] /\ e[17]) * gr + B2I(e[12]) * gu
               + B2I(scBot) * sc
        wBR == B2I(e[4] /\ ~e[13] /\ e[12]) * gr + B2I(e[12]) * gu + B2I(scBot) * sc
    IN  [winding |-> <<wTL, wTR, wBL, wBR>>,
         split_info |-> [fill |-> fillSet,
                         up |-> IF gr > 0 THEN marked ELSE {},
                         down |-> IF gr > 0 THEN {} ELSE marked]]

CellEntry_default ==
    [entry_type |-> EMPTY, data |-> 0, seg_idx |-> NONE_U32, path_idx |-> NONE_U32,
     cell_pos |-> 0, cell_id |-> NONE_U32]

(* One ABSTRACT entry per segment; seg_idx is the 0-based index into abs_segments. *)
init_root_cell_entries(segs) ==
    [k \in 1..Len(segs) |->
        [entry_type |-> ABSTRACT, data |-> 0, seg_idx |-> k - 1,
         path_idx |-> segs[k].path_idx, cell_pos |-> 0, cell_id |-> 0]]

is_abstract(en) == en.entry_type = ABSTRACT

is_winding_inc(en) == en.entry_type = WINDING_INCREMENT

(* K1: one split record per entry (an entry carries exactly one of the two flags). *)
build_split_entries(pb, mid, cell_entries, segs) ==
    [k \in 1..Len(cell_entries) |->
        LET en == cell_entries[k]
        IN  IF is_abstract(en)
            THEN LET seg == segs[en.seg_idx + 1]
                     sd == SplitData_new(seg, en.data, EdgeIntersectionInfo_new(seg, pb, mid), pb, mid)
                 IN  [winding |-> sd.winding, split_info |-> sd.split_info,
                      offsets |-> <<0, 0, 0, 0>>, seg_idx |-> en.seg_idx,
                      path_idx |-> seg.path_idx, parent_cell_id |-> en.cell_id]
            ELSE [winding |-> <<en.data, en.data, en.data, en.data>>,
                  split_info |-> [fill |-> {}, up |-> {}, down |-> {}],
                  offsets |-> <<0, 0, 0, 0>>, seg_idx |-> NONE_U32,
                  path_idx |-> en.path_idx, parent_cell_id |-> en.cell_id]]

(* K2: left-to-right inclusive scan of the windings, restarted at every change of path_idx. *)
RECURSIVE consolidate_from(_, _)
consolidate_from(se, i) ==
    IF i > Len(se) THEN se
    ELSE IF se[i].path_idx = se[i - 1].path_idx
         THEN consolidate_from(
                [se EXCEPT ![i].winding =
                    [c \in 1..4 |-> se[i].winding[c] + se[i - 1].winding[c]]], i + 1)
         ELSE consolidate_from(se, i + 1)

(* no scan at all: every record keeps its own K1 winding *)
consolidate_none(se) == se

(* the scan started one record late *)
consolidate_from_third(se) == consolidate_from(se, 3)

consolidate_winding_inc(se) == consolidate_from(se, 2)

is_tail_everywhere(se, i) == TRUE

is_tail(se, i) == i = Len(se) \/ se[i + 1].path_idx # se[i].path_idx

seg_out(se, i, cell) == B2I(has_fill(se[i].split_info, cell))

winc_out(se, i, cell) == B2I(is_tail(se, i) /\ se[i].winding[cell + 1] # 0)

(* K3: k enumerates the pairs (child, record) child-outermost; the result carries the
   records with their offsets and the running sum. *)
RECURSIVE offset_scan(_, _, _)
offset_scan(se, k, sum) ==
    IF k >= 4 * Len(se) THEN [entries |-> se, sum |-> sum]
    ELSE LET cell == CellOrder[(k \div Len(se)) + 1]
             i == (k % Len(se)) + 1
         IN  offset_scan([se EXCEPT ![i].offsets[cell + 1] = sum], k + 1,
                         sum + seg_out(se, i, cell) + winc_out(se, i, cell))

(* the running sum started at one *)
update_to_global_offset_from_one(se) == offset_scan(se, 0, 1)

update_to_global_offset(se) == offset_scan(se, 0, 0)

shortcut_of(split_info, cell) ==
    IF has_up(split_info, cell) THEN 1
    ELSE IF has_down(split_info, cell) THEN -1
    ELSE 0

(* the cursor advanced whether or not a SEGMENT entry was written *)
winding_cursor_always_advanced(base, has_segment) == base + 1

(* cursor = base, advanced by one after a SEGMENT write *)
winding_cursor(base, has_segment) == IF has_segment THEN base + 1 ELSE base

(* a skip of every record that has a successor in its run *)
dedup_skip_any_next(se, i, ci) ==
    i + 1 <= Len(se) /\ se[i + 1].path_idx = se[i].path_idx

(* the dedup skip: the next record of the run has the same offset for this child *)
dedup_skip(se, i, ci) ==
    /\ i + 1 <= Len(se) /\ se[i + 1].path_idx = se[i].path_idx
    /\ se[i + 1].offsets[ci] = se[i].offsets[ci]

(* K4: scatter.  A write at an index that is not below out_vec_size is a Rust panic;
   it is recorded in the field panic. *)
RECURSIVE scatter(_, _, _)
scatter(se, k, acc) ==
    IF k >= 4 * Len(se) THEN acc
    ELSE LET cell == CellOrder[(k \div Len(se)) + 1]
             ci == cell + 1
             i == (k % Len(se)) + 1
             curr == se[i]
             skip == dedup_skip(se, i, ci)
             has_segment == has_fill(curr.split_info, cell)
             has_winding == is_tail(se, i) /\ curr.winding[ci] # 0
             base == curr.offsets[ci]
             wpos == winding_cursor(base, has_segment)
             segE == [entry_type |-> ABSTRACT, data |-> shortcut_of(curr.split_info, cell),
                      seg_idx |-> curr.seg_idx, path_idx |-> curr.path_idx,
                      cell_pos |-> cell, cell_id |-> curr.parent_cell_id * 4 + cell]
             winE == [entry_type |-> WINDING_INCREMENT, data |-> curr.winding[ci],
                      seg_idx |-> NONE_U32, path_idx |-> curr.path_idx,
                      cell_pos |-> cell, cell_id |-> curr.parent_cell_id * 4 + cell]
             n == Len(acc.out)
             out1 == IF has_segment /\ base < n THEN [acc.out EXCEPT ![base + 1] = segE] ELSE acc.out
             out2 == IF has_winding /\ wpos < n THEN [out1 EXCEPT ![wpos + 1] = winE] ELSE out1
             bad == (has_segment /\ base >= n) \/ (has_winding /\ wpos >= n)
         IN  IF skip THEN scatter(se, k + 1, acc)
             ELSE scatter(se, k + 1, [out |-> out2, panic |-> acc.panic \/ bad])

split_to_cell_entry(se, out_vec_size) ==
    scatter(se, 0, [out |-> [k \in 1..out_vec_size |-> CellEntry_default], panic |-> FALSE])

subdivide_cell_entry(cell_entries, pb, mid, segs) ==
    LET k1 == build_split_entries(pb, mid, cell_entries, segs)
        k2 == consolidate_winding_inc(k1)
        k3 == update_to_global_offset(k2)
    IN  split_to_cell_entry(k3.entries, k3.sum).out

----------------------------------------------------------------------------
(* svg_parser.rs: a path  M v1 L v2 ... L vn Z  becomes n directed segments. *)

create_abstract_segment_array(verts, path_idx) ==
    [k \in 1..Len(verts) |->
        AbstractLineSegment_new(verts[k],
                                IF k < Len(verts) THEN verts[k + 1] ELSE verts[1],
                                path_idx)]

(* a path  M v1 L v2 ... L vn  without Z: one segment per LineTo, nothing closes it *)
open_segment_array(verts, path_idx) ==
    [k \in 1..(Len(verts) - 1) |-> AbstractLineSegment_new(verts[k], verts[k + 1], path_idx)]

----------------------------------------------------------------------------
(* quad_tree.rs *)

QuadCell(id, d, bbox) ==
    [id |-> id, depth |-> d, bbox |-> bbox, children |-> None, leaf_entry_range |-> None]

mid_of(bbox) == <<(bbox.right + bbox.left) \div 2, (bbox.bottom + bbox.top) \div 2>>

get_child_bounds(pb, mid) ==
    LET tl == Rect_from_ltrb(pb.left, pb.top, mid[1], mid[2])
        tr == Rect_from_ltrb(mid[1], pb.top, pb.right, mid[2])
        bl == Rect_from_ltrb(pb.left, mid[2], mid[1], pb.bottom)
        br == Rect_from_ltrb(mid[1], mid[2], pb.right, pb.bottom)
    IN  IF tl = None \/ tr = None \/ bl = None \/ br = None
        THEN None
        ELSE <<tl, tr, bl, br>>

SubSeq0(s, start, end) == [k \in 1..(end - start) |-> s[start + k]]

seg_count(entries) == Cardinality({k \in 1..Len(entries) : entries[k].entry_type = ABSTRACT})

can_split_at_threshold(entries, threshold) == seg_count(entries) >= threshold

can_split(entries, threshold) == seg_count(entries) > threshold

(* the frontier cell the loop body is at *)
parent_id == cells_cur[idx]

(* the whole frontier buffer instead of the slice of the cell *)
parent_entries_whole == entries_cur

parent_entries == SubSeq0(entries_cur, ranges_cur[idx][1], ranges_cur[idx][2])

parent_bbox == nodes[parent_id + 1].bbox

splits ==
    /\ can_split(parent_entries, min_seg)
    /\ get_child_bounds(parent_bbox, mid_of(parent_bbox)) # None

entries_of_child_unfiltered(flat, pos, child_id) ==
    [k \in 1..Len(flat) |-> [flat[k] EXCEPT !.cell_id = child_id, !.cell_pos = pos]]

entries_of_child_keep_id(flat, pos, child_id) ==
    SelectSeq(flat, LAMBDA e : e.cell_pos = pos)

(* entries of one child, in order, with the arena id of the child *)
entries_of_child(flat, pos, child_id) ==
    LET sel == SelectSeq(flat, LAMBDA e : e.cell_pos = pos)
    IN  [k \in 1..Len(sel) |-> [sel[k] EXCEPT !.cell_id = child_id]]

RECURSIVE append_children(_, _, _)
append_children(acc, per_child, pos) ==
    IF pos > 3 THEN acc
    ELSE IF Len(per_child[pos + 1]) = 0 THEN append_children(acc, per_child, pos + 1)
    ELSE append_children(
            [cells |-> Append(acc.cells, acc.ids[pos + 1]),
             ranges |-> Append(acc.ranges, <<Len(acc.entries), Len(acc.entries) + Len(per_child[pos + 1])>>),
             entries |-> acc.entries \o per_child[pos + 1],
             ids |-> acc.ids],
            per_child, pos + 1)

----------------------------------------------------------------------------
(* Inputs *)

(* vertices, in units of 1 / Unit pixel *)
PtList ==
    <<  <<-1, 3>>, <<1, 0>>, <<2, 2>>, <<5, 2>>, <<3, 5>>, <<4, 1>>, <<1, 3>>, <<0, 4>>, <<3, 1>> >>

NumPts == 5

Pts == {PtList[k] : k \in 1..Min(NumPts, Len(PtList))}

Polygons == {<<a, b>> : a \in Pts, b \in Pts} \cup {<<a, b, c>> : a \in Pts, b \in Pts, c \in Pts}

Shapes ==
    {  << <<0, 0>>, <<3, 0>>, <<3, 3>>, <<0, 3>> >>,
       << <<1, 1>>, <<6, 2>>, <<2, 5>> >>,
       << <<1, 1>>, <<3, 3>> >>,
       << <<5, 1>>, <<5, 3>> >>  }

(* a scene is a list of closed paths; path k of the list has path_idx k - 1 *)
Scenes == {<<poly>> : poly \in Polygons} \cup {<<a, b>> : a \in Shapes, b \in Shapes}

RECURSIVE scene_segments(_, _)
scene_segments(scene, k) ==
    IF k > Len(scene) THEN <<>>
    ELSE create_abstract_segment_array(scene[k], k - 1) \o scene_segments(scene, k + 1)

SquareBox(px) == [left |-> 0, top |-> 0, right |-> px * Unit, bottom |-> px * Unit]

ZeroWidthBox(px) == [left |-> 0, top |-> 0, right |-> 0, bottom |-> px * Unit]

RootBoxes == {SquareBox(2), ZeroWidthBox(2)}

(* the depths at which every midpoint of the subdivision is a multiple of 1 / Unit *)
ExactDepths(box) == {d \in 0..MaxDepth : box.right % Pow2(d) = 0 /\ box.bottom % Pow2(d) = 0}

Idle ==
    /\ p0 = <<0, 0>> /\ p1 = <<0, 0>> /\ sample = <<0, 0>>
    /\ seg_fwd = None /\ seg_rev = None /\ out = None /\ gpu = None

TreeInit ==
    /\ nodes = <<QuadCell(0, 0, root_bbox)>>
    /\ leaf_entries = <<>>
    /\ cells_cur = <<0>>
    /\ entries_cur = [k \in 1..Len(abs_segments) |->
                        [init_root_cell_entries(abs_segments)[k] EXCEPT !.cell_id = 0, !.cell_pos = TOP_LEFT]]
    /\ ranges_cur = <<<<0, Len(abs_segments)>>>>
    /\ cells_next = <<>> /\ entries_next = <<>> /\ ranges_next = <<>>
    /\ depth = 0
    /\ idx = 1

(* scenario S1: the path M 20 20 L 80 80 Z in the root (0,0,100,100), max_depth 1, min_seg 0 *)
S1Scene == << << <<20 * Unit, 20 * Unit>>, <<80 * Unit, 80 * Unit>> >> >>

S1Case == [scene |-> S1Scene, box |-> SquareBox(100), max_depth |-> 1, min_seg |-> 0]

(* an image as wide as the row stride of set_pixel, so that the cell outlines land
   inside the buffer: a triangle with its apex at column apex *)
WideBox == [left |-> 0, top |-> 0, right |-> 1000 * Unit, bottom |-> 8 * Unit]

WideScene(apex) ==
    << << <<300 * Unit, 2 * Unit>>, <<700 * Unit, 2 * Unit>>, <<apex * Unit, 7 * Unit>> >> >>

WideCase == [scene |-> WideScene(500), box |-> WideBox, max_depth |-> 1, min_seg |-> 0]

FixedCases == {S1Case, WideCase}

Init ==
    /\ \/ /\ \E scene \in Scenes : abs_segments = scene_segments(scene, 1)
          /\ root_bbox \in RootBoxes
          /\ max_depth \in ExactDepths(root_bbox)
          /\ min_seg \in 0..MaxMinSeg
       \/ \E c \in FixedCases :
             /\ abs_segments = scene_segments(c.scene, 1)
             /\ root_bbox = c.box
             /\ max_depth = c.max_depth
             /\ min_seg = c.min_seg
    /\ TreeInit
    /\ pc = "level"
    /\ Idle

level_loop_inclusive(d, md, frontier) == d <= md /\ Len(frontier) > 0

(* for depth in 0..max_depth, with the break on an empty frontier *)
level_loop_continues(d, md, frontier) == d < md /\ Len(frontier) > 0

LevelStart ==
    /\ pc = "level"
    /\ level_loop_continues(depth, max_depth, cells_cur)
    /\ cells_next' = <<>> /\ entries_next' = <<>> /\ ranges_next' = <<>>
    /\ idx' = 1
    /\ pc' = "cell"
    /\ UNCHANGED <<abs_segments, root_bbox, max_depth, min_seg, nodes, leaf_entries,
                   cells_cur, entries_cur, ranges_cur, depth>>
    /\ UNCHANGED segVars

LoopExit ==
    /\ pc = "level"
    /\ ~level_loop_continues(depth, max_depth, cells_cur)
    /\ idx' = 1
    /\ pc' = "finalize"
    /\ UNCHANGED <<abs_segments, root_bbox, max_depth, min_seg, nodes, leaf_entries,
                   cells_cur, entries_cur, ranges_cur, cells_next, entries_next,
                   ranges_next, depth>>
    /\ UNCHANGED segVars

(* loop body, the two branches that save the cell as a leaf *)
LeafCell ==
    /\ pc = "cell" /\ idx <= Len(cells_cur)
    /\ ~splits
    /\ leaf_entries' = leaf_entries \o parent_entries
    /\ nodes' = [nodes EXCEPT ![parent_id + 1].leaf_entry_range =
                    <<Len(leaf_entries), Len(leaf_entries) + Len(parent_entries)>>]
    /\ idx' = idx + 1
    /\ UNCHANGED <<abs_segments, root_bbox, max_depth, min_seg,
                   cells_cur, entries_cur, ranges_cur, cells_next, entries_next,
                   ranges_next, depth, pc>>
    /\ UNCHANGED segVars

(* loop body, the branch that creates four children and subdivides the entries *)
SplitCell ==
    /\ pc = "cell" /\ idx <= Len(cells_cur)
    /\ splits
    /\ LET mid == mid_of(parent_bbox)
           cb == get_child_bounds(parent_bbox, mid)
           child_ids == [pos \in 1..4 |-> Len(nodes) + pos - 1]
           flat == subdivide_cell_entry(parent_entries, parent_bbox, mid, abs_segments)
           per_child == [pos \in 1..4 |-> entries_of_child(flat, pos - 1, child_ids[pos])]
           nxt == append_children([cells |-> cells_next, ranges |-> ranges_next,
                                   entries |-> entries_next, ids |-> child_ids],
                                  per_child, 0)
       IN  /\ nodes' = [nodes EXCEPT ![parent_id + 1].children = child_ids]
                       \o [pos \in 1..4 |-> QuadCell(child_ids[pos], depth + 1, cb[pos])]
           /\ cells_next' = nxt.cells
           /\ ranges_next' = nxt.ranges
           /\ entries_next' = nxt.entries
    /\ idx' = idx + 1
    /\ UNCHANGED <<abs_segments, root_bbox, max_depth, min_seg, leaf_entries,
                   cells_cur, entries_cur, ranges_cur, depth, pc>>
    /\ UNCHANGED segVars

LevelEnd ==
    /\ pc = "cell" /\ idx > Len(cells_cur)
    /\ cells_cur' = cells_next
    /\ entries_cur' = entries_next
    /\ ranges_cur' = ranges_next
    /\ depth' = depth + 1
    /\ pc' = "level"
    /\ UNCHANGED <<abs_segments, root_bbox, max_depth, min_seg, nodes, leaf_entries,
                   cells_next, entries_next, ranges_next, idx>>
    /\ UNCHANGED segVars

(* the loop after the level loop: every cell still on the frontier becomes a leaf *)
FinalizeFrontier ==
    /\ pc = "finalize" /\ idx <= Len(cells_cur)
    /\ leaf_entries' = leaf_entries \o parent_entries
    /\ nodes' = [nodes EXCEPT ![parent_id + 1].leaf_entry_range =
                    <<Len(leaf_entries), Len(leaf_entries) + Len(parent_entries)>>]
    /\ idx' = idx + 1
    /\ UNCHANGED <<abs_segments, root_bbox, max_depth, min_seg,
                   cells_cur, entries_cur, ranges_cur, cells_next, entries_next,
                   ranges_next, depth, pc>>
    /\ UNCHANGED segVars

Return ==
    /\ pc = "finalize" /\ idx > Len(cells_cur)
    /\ pc' = "done"
    /\ UNCHANGED treeVars
    /\ UNCHANGED segVars

Next ==
    \/ LevelStart
    \/ LoopExit
    \/ LeafCell
    \/ SplitCell
    \/ LevelEnd
    \/ FinalizeFrontier
    \/ Return

Spec == Init /\ [][Next]_vars

(* The same driver on scenes that also hold open paths: one LineTo between two points on a
   half-pixel grid around the root (0,0,4,4). *)
OpenPts == {<<(x * Unit) \div 2, (y * Unit) \div 2>> : x \in {-1, 3, 9}, y \in {-1, 3, 5}}

OpenPaths == {<<a, b>> : a \in OpenPts, b \in OpenPts} \ {<<a, a>> : a \in OpenPts}

InitOpen ==
    \/ Init
    \/ /\ \E path \in OpenPaths : abs_segments = open_segment_array(path, 0)
       /\ root_bbox = SquareBox(4)
       /\ max_depth \in 1..MaxDepth
       /\ min_seg \in 0..MaxMinSeg
       /\ TreeInit
       /\ pc = "level"
       /\ Idle

SpecOpen == InitOpen /\ [][Next]_vars

----------------------------------------------------------------------------
(* The segment abstraction on its own: endpoints and a sample drawn from a grid. *)

SegCoords == (-1)..MaxCoord

SegPts == {<<x, y>> : x \in SegCoords, y \in SegCoords}

InitSeg ==
    /\ abs_segments = <<>>
    /\ root_bbox = SquareBox(2)
    /\ max_depth = 0
    /\ min_seg = 0
    /\ TreeInit
    /\ pc = "seg"
    /\ p0 \in SegPts /\ p1 \in SegPts /\ sample \in SegPts
    /\ seg_fwd = None /\ seg_rev = None /\ out = None /\ gpu = None

(* AbstractLineSegment::new on (p0, p1) and on (p1, p0) *)
Construct ==
    /\ pc = "seg"
    /\ seg_fwd' = AbstractLineSegment_new(p0, p1, 0)
    /\ seg_rev' = AbstractLineSegment_new(p1, p0, 0)
    /\ pc' = "seg_done"
    /\ UNCHANGED <<p0, p1, sample, out, gpu>>
    /\ UNCHANGED treeVars

(* probe abscissas of a row, left to right, reaching beyond every segment's bbox *)
ProbeXs == (-2)..(MaxCoord + 1)

(* half_open_eval of the constructed segment along the sample's row *)
ProbeRow ==
    /\ pc = "seg_done"
    /\ out' = [x \in ProbeXs |-> half_open_eval(seg_fwd, x, sample[2])]
    /\ pc' = "row"
    /\ UNCHANGED <<p0, p1, sample, seg_fwd, seg_rev, gpu>>
    /\ UNCHANGED treeVars

CellBox(r, b) == [left |-> 0, top |-> 0, right |-> r, bottom |-> b]

CellBoxes == {CellBox(r, b) : r \in 1..MaxCoord, b \in 1..MaxCoord}

(* hit_shortcut of the constructed segment at the sample, for a cell *)
HitShortcut ==
    /\ pc = "seg_done"
    /\ \E cell \in CellBoxes :
          out' = [cell |-> cell, res |-> hit_shortcut(seg_fwd, cell, sample[1], sample[2])]
    /\ pc' = "hit"
    /\ UNCHANGED <<p0, p1, sample, seg_fwd, seg_rev, gpu>>
    /\ UNCHANGED treeVars

(* intersect_with_bb of the constructed segment with a box *)
IntersectBB ==
    /\ pc = "seg_done"
    /\ \E bb \in CellBoxes :
          out' = [bb |-> bb, res |-> intersect_with_bb(seg_fwd, bb)]
    /\ pc' = "isect"
    /\ UNCHANGED <<p0, p1, sample, seg_fwd, seg_rev, gpu>>
    /\ UNCHANGED treeVars

(* parent cells of even size around the grid of the segment end points *)
EdgeCells ==
    {[left |-> l, top |-> t, right |-> l + 2 * w, bottom |-> t + 2 * h] :
        l \in (-2)..0, t \in (-2)..0, w \in 1..2, h \in 1..2}

(* EdgeIntersectionInfo::new of the constructed segment for a parent cell *)
EdgeInfo ==
    /\ pc = "seg_done"
    /\ \E cell \in EdgeCells :
          out' = [cell |-> cell, e |-> EdgeIntersectionInfo_new(seg_fwd, cell, mid_of(cell))]
    /\ pc' = "edge"
    /\ UNCHANGED <<p0, p1, sample, seg_fwd, seg_rev, gpu>>
    /\ UNCHANGED treeVars

NextSeg ==
    \/ Construct
    \/ ProbeRow
    \/ HitShortcut
    \/ IntersectBB
    \/ EdgeInfo

SpecSeg == InitSeg /\ [][NextSeg]_vars

----------------------------------------------------------------------------
(* cpu_renderer.rs *)

(* what one entry adds to count at the sample (sx, sy) of a leaf with bounding box bbox *)
entry_count(en, bbox, sx, sy) ==
    IF is_abstract(en)
    THEN LET seg == abs_segments[en.seg_idx + 1]
         IN  B2I(is_left(seg, sx, sy) /\ sy >= seg.bbox.top /\ sy < seg.bbox.bottom)
             + (IF en.data # 0 /\ hit_shortcut(seg, bbox, sx, sy) THEN en.data ELSE 0)
    ELSE IF is_winding_inc(en) THEN en.data
    ELSE 0

(* the walk over the entry slice: acc.out is the colour written so far (0 is [0,0,0,0],
   path p has paint p + 1), acc.odd the paths whose count was odd at their boundary *)
RECURSIVE walk_entries(_, _, _, _, _, _, _)
walk_entries(entries, bbox, sx, sy, i, count, acc) ==
    IF i > Len(entries) THEN acc
    ELSE LET en == entries[i]
             c == count + entry_count(en, bbox, sx, sy)
             last_entry_in_path == i = Len(entries) \/ entries[i + 1].path_idx # en.path_idx
         IN  IF last_entry_in_path
             THEN walk_entries(entries, bbox, sx, sy, i + 1, 0,
                      IF c % 2 # 0
                      THEN [out |-> en.path_idx + 1, odd |-> acc.odd \cup {en.path_idx}]
                      ELSE acc)
             ELSE walk_entries(entries, bbox, sx, sy, i + 1, c, acc)

render_pixel(entries, bbox, x, y) ==
    walk_entries(entries, bbox, x * Unit, y * Unit, 1, 0, [out |-> 0, odd |-> {}])

img_width == root_bbox.right \div Unit

img_height == root_bbox.bottom \div Unit

(* the pixel columns and rows the renderer visits for a node: max/min, then `as u32` *)
px_cols(node) ==
    {x \in (Max(node.bbox.left, 0) \div Unit)..(Min(node.bbox.right, img_width * Unit) \div Unit) :
        x < Min(node.bbox.right, img_width * Unit) \div Unit}

px_rows(node) ==
    {y \in (Max(node.bbox.top, 0) \div Unit)..(Min(node.bbox.bottom, img_height * Unit) \div Unit) :
        y < Min(node.bbox.bottom, img_height * Unit) \div Unit}

(* pixel bounds of a node: max/min with the image, then `as u32` *)
px_left(node) == Max(node.bbox.left, 0) \div Unit

px_right(node) == Min(node.bbox.right, img_width * Unit) \div Unit

px_top(node) == Max(node.bbox.top, 0) \div Unit

px_bottom(node) == Min(node.bbox.bottom, img_height * Unit) \div Unit

(* RGBA values: the cleared buffer, the overlay colours, the outline paint, and the
   paint of path p (paints are taken distinct from each other and from the overlay) *)
Cleared == <<0, 0, 0, 0>>

Green == <<0, 255, 0, 255>>

Red == <<255, 0, 0, 255>>

Blue == <<0, 0, 255, 255>>

White == <<255, 255, 255, 255>>

paint_rgba(p) == <<p + 1, p + 1, p + 1, 255>>

(* has_shortcut and winc accumulate over the whole entry range of the pixel *)
has_shortcut(entries, bbox, sx, sy) ==
    \E i \in 1..Len(entries) :
        /\ is_abstract(entries[i])
        /\ entries[i].data # 0
        /\ hit_shortcut(abs_segments[entries[i].seg_idx + 1], bbox, sx, sy)

RECURSIVE winc_sum(_, _)
winc_sum(entries, i) ==
    IF i > Len(entries) THEN 0
    ELSE (IF is_winding_inc(entries[i]) THEN entries[i].data ELSE 0) + winc_sum(entries, i + 1)

(* the u32 subtractions of the overlay wrap below zero (or panic with overflow checks) *)
overlay_underflows(hs, winc, right) ==
    \/ hs /\ right < 6
    \/ \E i \in 0..(Abs(winc) - 1) : right < 8 + 12 * i + 6

(* DRAW_DEBUG_OVERLAY: a wrapped subtraction gives a bound no x reaches *)
debug_overlay(colour, hs, winc, right, x) ==
    LET visible == hs /\ right >= 6 /\ right - 6 <= x /\ x <= right
        bar == \E i \in 0..(Abs(winc) - 1) :
                  /\ right >= 8 + 12 * i + 6
                  /\ right - (8 + 12 * i + 6) <= x /\ x <= right - (8 + 12 * i)
    IN  IF bar THEN (IF winc < 0 THEN Red ELSE Blue)
        ELSE IF visible THEN Green
        ELSE colour

(* the overlay arithmetic of pixel (x, y) of a leaf goes below zero *)
pixel_underflows(node, x, y) ==
    LET entries == SubSeq0(leaf_entries, node.leaf_entry_range[1], node.leaf_entry_range[2])
    IN  overlay_underflows(has_shortcut(entries, node.bbox, x * Unit, y * Unit),
                           winc_sum(entries, 1), px_right(node))

(* what the renderer hands to the pixel buffer for pixel (x, y) of a leaf *)
pixel_written(node, x, y) ==
    LET entries == SubSeq0(leaf_entries, node.leaf_entry_range[1], node.leaf_entry_range[2])
        o == render_pixel(entries, node.bbox, x, y).out
    IN  debug_overlay(IF o = 0 THEN Cleared ELSE paint_rgba(o - 1),
                      has_shortcut(entries, node.bbox, x * Unit, y * Unit),
                      winc_sum(entries, 1), px_right(node), x)

(* v - 1 in u32: below zero it wraps (or panics with overflow checks); the wrapped value
   only meets the x >= 1000 test of set_pixel, so the largest integer here stands for it *)
u32_dec(v) == IF v = 0 THEN 2147483647 ELSE v - 1

(* draw_line on an axis-aligned line paints every pixel between its end points *)
in_line(x, y, x1, y1, x2, y2) ==
    /\ Min(x1, x2) <= x /\ x <= Max(x1, x2)
    /\ Min(y1, y2) <= y /\ y <= Max(y1, y2)

(* the four draw_line calls that outline a leaf *)
on_outline(node, x, y) ==
    LET l == px_left(node)
        t == px_top(node)
        r1 == u32_dec(px_right(node))
        b1 == u32_dec(px_bottom(node))
    IN  \/ in_line(x, y, l, t, r1, t)
        \/ in_line(x, y, r1, t, r1, b1)
        \/ in_line(x, y, l, b1, r1, b1)
        \/ in_line(x, y, l, t, l, b1)

outline_underflows(node) == px_right(node) = 0 \/ px_bottom(node) = 0

(* set_pixel is called with width 1000 and height 1000 whatever the image is *)
set_pixel_index(x, y) == y * 1000 + x

outline_out_of_buffer(node) ==
    \E x \in px_left(node)..Min(Max(px_left(node), u32_dec(px_right(node))), 999) :
        \E y \in px_top(node)..Min(Max(px_top(node), u32_dec(px_bottom(node))), 999) :
            /\ on_outline(node, x, y)
            /\ set_pixel_index(x, y) >= img_width * img_height

is_leaf(node) == node.leaf_entry_range # None

leaf_slice(node) == SubSeq0(leaf_entries, node.leaf_entry_range[1], node.leaf_entry_range[2])

Leaves == {k \in 1..Len(nodes) : is_leaf(nodes[k])}

root_entries == init_root_cell_entries(abs_segments)

(* what a leaf leaves in buffer position pos (in pixels): its outline is drawn after its
   pixels; None if the leaf does not touch the position *)
leaf_writes(node, pos) ==
    IF pos \div 1000 < 1000 /\ on_outline(node, pos % 1000, pos \div 1000) THEN White
    ELSE IF /\ px_left(node) <= pos % img_width /\ pos % img_width < px_right(node)
            /\ px_top(node) <= pos \div img_width /\ pos \div img_width < px_bottom(node)
         THEN pixel_written(node, pos % img_width, pos \div img_width)
         ELSE None

(* the content of buffer position pos after the loop over tree.nodes *)
RECURSIVE image_from(_, _, _)
image_from(k, pos, acc) ==
    IF k > Len(nodes) THEN acc
    ELSE IF ~is_leaf(nodes[k]) THEN image_from(k + 1, pos, acc)
    ELSE LET w == leaf_writes(nodes[k], pos)
         IN  image_from(k + 1, pos, IF w # None THEN w ELSE acc)

image_at(pos) == image_from(1, pos, Cleared)

(* the render stops in a panic: an overlay or outline subtraction below zero with
   overflow checks (checked), or an outline pixel addressed beyond the buffer *)
render_panics(checked) ==
    \E k \in Leaves :
        \/ outline_out_of_buffer(nodes[k])
        \/ checked /\ outline_underflows(nodes[k])
        \/ checked /\ \E x \in px_cols(nodes[k]) : \E y \in px_rows(nodes[k]) :
                          pixel_underflows(nodes[k], x, y)

----------------------------------------------------------------------------
(* Build and rasterize, then the same with every segment reversed. *)

reversed(segs) ==
    [k \in 1..Len(segs) |->
        AbstractLineSegment_new(<<segs[k].x1, segs[k].y1>>, <<segs[k].x0, segs[k].y0>>,
                                segs[k].path_idx)]

(* the pixel buffer after render_quadtree_by_node_array, without overflow checks *)
pixel_buffer == [pos \in 0..(img_width * img_height - 1) |-> image_at(pos)]

Apexes == {300, 500, 900}

RevCases ==
    {[scene |-> WideScene(a), box |-> WideBox, max_depth |-> d, min_seg |-> m] :
        a \in Apexes, d \in ExactDepths(WideBox), m \in 0..MaxMinSeg}

InitRev ==
    /\ \E c \in RevCases :
          /\ abs_segments = scene_segments(c.scene, 1)
          /\ root_bbox = c.box
          /\ max_depth = c.max_depth
          /\ min_seg = c.min_seg
    /\ TreeInit
    /\ pc = "level"
    /\ Idle

(* keep the first image, reverse every segment and start the build again *)
Reverse ==
    /\ pc = "done" /\ out = None
    /\ out' = [pixels |-> pixel_buffer, panics |-> render_panics(FALSE)]
    /\ abs_segments' = reversed(abs_segments)
    /\ nodes' = <<QuadCell(0, 0, root_bbox)>>
    /\ leaf_entries' = <<>>
    /\ cells_cur' = <<0>>
    /\ entries_cur' = [k \in 1..Len(abs_segments) |->
                          [init_root_cell_entries(reversed(abs_segments))[k]
                              EXCEPT !.cell_id = 0, !.cell_pos = TOP_LEFT]]
    /\ ranges_cur' = <<<<0, Len(abs_segments)>>>>
    /\ cells_next' = <<>> /\ entries_next' = <<>> /\ ranges_next' = <<>>
    /\ depth' = 0
    /\ idx' = 1
    /\ pc' = "level"
    /\ UNCHANGED <<root_bbox, max_depth, min_seg, p0, p1, sample, seg_fwd, seg_rev, gpu>>

NextRev ==
    \/ LevelStart
    \/ LoopExit
    \/ LeafCell
    \/ SplitCell
    \/ LevelEnd
    \/ FinalizeFrontier
    \/ Return
    \/ Reverse

SpecRev == InitRev /\ [][NextRev]_vars

----------------------------------------------------------------------------
(* gpu/quad_tree.rs and gpu/subdivide_cell_entry.rs: the host loop, the buffers a kernel
   is bound to, and the device queue.  The content of a buffer is kept as the level and
   the writer that produced it. *)

Meta1 == "cell_metadata_buffer_1"

Meta2 == "cell_metadata_buffer_2"

CellEntries == "cell_entries_buffer"

SplitEntries == "split_entries_buffer"

CellOffsets == "cell_offsets_buffer"

ResultInfo == "result_info_buffer"

(* the metadata buffer read and the one written at a level, by ping = depth % 2 *)
metadata_in(ping) == IF ping = 0 THEN Meta1 ELSE Meta2

(* an update_metadata bound to the buffer the level reads *)
metadata_out_same(ping) == metadata_in(ping)

metadata_out(ping) == IF ping = 0 THEN Meta2 ELSE Meta1

Dispatch(kernel, d, reads, writes) ==
    [kernel |-> kernel, level |-> d, reads |-> reads, writes |-> writes]

Repeat(n, cmd) == [k \in 1..n |-> cmd]

(* the dispatches of one compute pass in the order they are encoded; wl and ol are the
   numbers of hierarchical scan levels for the windings and the offsets *)
compute_pass(d, wl, ol) ==
    LET ping == d % 2
    IN  << Dispatch("quadcell_split", d, {metadata_in(ping), ResultInfo}, {metadata_out(ping)}),
           Dispatch("build_split_entries", d, {CellEntries, metadata_in(ping), ResultInfo},
                    {SplitEntries, CellOffsets}) >>
        \o Repeat(wl, Dispatch("scan_winding_block", d, {SplitEntries}, {SplitEntries}))
        \o Repeat(wl - 1, Dispatch("add_winding_carry", d, {SplitEntries}, {SplitEntries}))
        \o << Dispatch("mark_tail_winding_offsets", d, {SplitEntries}, {CellOffsets}) >>
        \o Repeat(ol, Dispatch("scan_offset_block", d, {CellOffsets}, {CellOffsets}))
        \o Repeat(ol - 1, Dispatch("add_offset_carry", d, {CellOffsets}, {CellOffsets}))
        \o << Dispatch("emit_cell_entries", d, {SplitEntries, CellOffsets},
                       {CellEntries, ResultInfo}),
              Dispatch("update_metadata", d, {CellEntries, ResultInfo}, {metadata_out(ping)}) >>

(* a readback that returns at once *)
device_never_waits(queue) == TRUE

(* device.poll(wait_indefinitely): the readback returns when the queue has drained *)
device_has_drained(queue) == queue = <<>>

(* the buffer read_cell_metadata copies back *)
read_cell_metadata(last_depth) == IF last_depth % 2 = 0 THEN Meta2 ELSE Meta1

(* QuadTreeGpuContext::new: root metadata in buffer 1, root entries in the entries buffer *)
InitGpu ==
    /\ abs_segments = <<>>
    /\ root_bbox = SquareBox(2)
    /\ max_depth \in 0..MaxDepth
    /\ min_seg = 0
    /\ TreeInit
    /\ pc = "gpu"
    /\ p0 = <<0, 0>> /\ p1 = <<0, 0>> /\ sample = <<0, 0>>
    /\ seg_fwd = None /\ seg_rev = None /\ out = None
    /\ gpu = [pc |-> "loop", depth |-> 0, num_cells |-> 1,
              num_entries |-> [level |-> -1, by |-> "host"],
              queue |-> <<>>, log |-> <<>>,
              content |-> [b \in {Meta1, Meta2, CellEntries, SplitEntries, CellOffsets, ResultInfo} |->
                              IF b \in {Meta1, CellEntries} THEN [level |-> -1, by |-> "host"]
                              ELSE [level |-> -2, by |-> "none"]],
              returned |-> None, underflow |-> FALSE]

(* process_level: write result_info, encode the pass, submit *)
ProcessLevel ==
    /\ pc = "gpu" /\ gpu.pc = "loop" /\ gpu.depth < max_depth
    /\ \E wl \in 1..2, ol \in 1..2 :
          gpu' = [gpu EXCEPT !.content[ResultInfo] = [level |-> gpu.depth - 1, by |-> "host"],
                             !.queue = gpu.queue \o compute_pass(gpu.depth, wl, ol),
                             !.pc = "read_result_info"]
    /\ UNCHANGED <<p0, p1, sample, seg_fwd, seg_rev, out, pc>>
    /\ UNCHANGED treeVars

(* the device runs the dispatches of the queue one after the other *)
GpuExecute ==
    /\ pc = "gpu" /\ gpu.queue # <<>>
    /\ LET cmd == Head(gpu.queue)
       IN  gpu' = [gpu EXCEPT !.queue = Tail(gpu.queue),
                              !.log = Append(gpu.log, cmd),
                              !.content = [b \in DOMAIN gpu.content |->
                                              IF b \in cmd.writes
                                              THEN [level |-> cmd.level, by |-> cmd.kernel]
                                              ELSE gpu.content[b]]]
    /\ UNCHANGED <<p0, p1, sample, seg_fwd, seg_rev, out, pc>>
    /\ UNCHANGED treeVars

(* read_result_info, then num_entries and num_cells for the next level *)
ReadResultInfo ==
    /\ pc = "gpu" /\ gpu.pc = "read_result_info"
    /\ device_has_drained(gpu.queue)
    /\ gpu' = [gpu EXCEPT !.num_entries = gpu.content[ResultInfo],
                          !.num_cells = gpu.num_cells * 4,
                          !.depth = gpu.depth + 1,
                          !.pc = "loop"]
    /\ UNCHANGED <<p0, p1, sample, seg_fwd, seg_rev, out, pc>>
    /\ UNCHANGED treeVars

(* after the loop: read_seg_entry, last_depth = max_depth - 1 in u8 (a panic with overflow
   checks, 255 without), read_cell_metadata(last_depth) *)
ReadBack ==
    /\ pc = "gpu" /\ gpu.pc = "loop" /\ gpu.depth >= max_depth
    /\ device_has_drained(gpu.queue)
    /\ \E checked \in BOOLEAN :
          IF max_depth = 0 /\ checked
          THEN gpu' = [gpu EXCEPT !.pc = "panic", !.underflow = TRUE]
          ELSE LET last_depth == IF max_depth = 0 THEN 255 ELSE max_depth - 1
               IN  gpu' = [gpu EXCEPT !.pc = "done",
                                      !.underflow = (max_depth = 0),
                                      !.returned = [metadata |-> gpu.content[read_cell_metadata(last_depth)],
                                                    source |-> read_cell_metadata(last_depth),
                                                    entries |-> gpu.content[CellEntries],
                                                    truncate |-> gpu.num_entries]]
    /\ UNCHANGED <<p0, p1, sample, seg_fwd, seg_rev, out, pc>>
    /\ UNCHANGED treeVars

NextGpu ==
    \/ ProcessLevel
    \/ GpuExecute
    \/ ReadResultInfo
    \/ ReadBack

SpecGpu == InitGpu /\ [][NextGpu]_vars


----------------------------------------------------------------------------
(* Reference notions used by the properties *)

PathIds == {abs_segments[k].path_idx : k \in 1..Len(abs_segments)}

SegsOfPath(p) == {k \in 1..Len(abs_segments) : abs_segments[k].path_idx = p}

(* the sample lies on the closed segment *)
OnSegment(seg, sx, sy) ==
    /\ (seg.y1 - seg.y0) * (sx - seg.x0) = (sy - seg.y0) * (seg.x1 - seg.x0)
    /\ Min(seg.x0, seg.x1) <= sx /\ sx <= Max(seg.x0, seg.x1)
    /\ Min(seg.y0, seg.y1) <= sy /\ sy <= Max(seg.y0, seg.y1)

OnEdgeOfPath(p, sx, sy) == \E k \in SegsOfPath(p) : OnSegment(abs_segments[k], sx, sy)

(* the ray from the sample straight up (towards smaller y) meets the segment *)
UpRayMeets(seg, sx, sy) ==
    LET xa == IF seg.x0 <= seg.x1 THEN seg.x0 ELSE seg.x1
        ya == IF seg.x0 <= seg.x1 THEN seg.y0 ELSE seg.y1
        xb == IF seg.x0 <= seg.x1 THEN seg.x1 ELSE seg.x0
        yb == IF seg.x0 <= seg.x1 THEN seg.y1 ELSE seg.y0
    IN  /\ xa <= sx /\ sx < xb
        /\ (yb - ya) * (sx - xa) < (sy - ya) * (xb - xa)

(* even-odd inside test of path p, by the number of edges above the sample *)
InsideEvenOdd(p, sx, sy) ==
    Cardinality({k \in SegsOfPath(p) : UpRayMeets(abs_segments[k], sx, sy)}) % 2 = 1

SampleInBox(bbox, x, y) ==
    /\ bbox.left <= x * Unit /\ x * Unit < bbox.right
    /\ bbox.top <= y * Unit /\ y * Unit < bbox.bottom

IsInternal(node) == node.children # None

Unfinished == {k \in 1..Len(nodes) : ~IsInternal(nodes[k]) /\ ~is_leaf(nodes[k])}

----------------------------------------------------------------------------
(* C1: after build_quadtree every cell of the arena is either internal or a leaf,
   never neither and never both, also a child that received no entries. *)
C1_LeafCompleteness ==
    pc = "done" => \A k \in 1..Len(nodes) : IsInternal(nodes[k]) # is_leaf(nodes[k])

(* C2: subdivision does not change coverage: at every pixel a leaf renders, the paths
   with an odd count over the leaf's slice are the paths with an odd count over the
   root entry list (the leaf slice of the max_depth = 0 tree). *)
C2_SubdivisionKeepsParity ==
    pc = "done" =>
        \A k \in Leaves : \A x \in px_cols(nodes[k]) : \A y \in px_rows(nodes[k]) :
            render_pixel(leaf_slice(nodes[k]), nodes[k].bbox, x, y).odd
                = render_pixel(root_entries, root_bbox, x, y).odd

(* C3: at every pixel a leaf renders and for every path whose edges the sample is not
   on, the count over the leaf's entries is odd exactly when the sample is inside the
   path under the even-odd rule. *)
C3_CountIsEvenOdd ==
    pc = "done" =>
        \A k \in Leaves : \A x \in px_cols(nodes[k]) : \A y \in px_rows(nodes[k]) :
            \A p \in PathIds :
                ~OnEdgeOfPath(p, x * Unit, y * Unit) =>
                    ((p \in render_pixel(leaf_slice(nodes[k]), nodes[k].bbox, x, y).odd)
                        <=> InsideEvenOdd(p, x * Unit, y * Unit))

----------------------------------------------------------------------------
(* The cell slices that exist in a state: the frontier being read, the frontier being
   built, and the finalized leaves. *)

Slices ==
    {SubSeq0(entries_cur, ranges_cur[j][1], ranges_cur[j][2]) : j \in 1..Len(ranges_cur)}
    \cup {SubSeq0(entries_next, ranges_next[j][1], ranges_next[j][2]) : j \in 1..Len(ranges_next)}
    \cup {leaf_slice(nodes[k]) : k \in Leaves}

(* slices of cells below the root, with the cell of each *)
DeepSlices ==
    {[cell |-> cells_cur[j], s |-> SubSeq0(entries_cur, ranges_cur[j][1], ranges_cur[j][2])] :
        j \in 1..Len(ranges_cur)}
    \cup {[cell |-> cells_next[j], s |-> SubSeq0(entries_next, ranges_next[j][1], ranges_next[j][2])] :
        j \in 1..Len(ranges_next)}
    \cup {[cell |-> nodes[k].id, s |-> leaf_slice(nodes[k])] : k \in Leaves}

OrderedSlice(s) ==
    /\ \A i \in 1..Len(s) : \A j \in (i + 1)..Len(s) : s[i].path_idx <= s[j].path_idx
    /\ \A i \in 1..Len(s) :
          is_winding_inc(s[i]) => (i = Len(s) \/ s[i + 1].path_idx # s[i].path_idx)

(* C4: every cell slice, at every level and in every leaf range, is ordered by ascending
   path_idx, and within a path the SEGMENT entries precede at most one WINDING entry,
   which is the last entry of the path. *)
C4_SliceOrdering == \A s \in Slices : OrderedSlice(s)

C4_Witness ==
    /\ pc = "done"
    /\ \E k \in Leaves :
          /\ nodes[k].depth >= 2
          /\ LET s == leaf_slice(nodes[k])
             IN  \E i \in 1..Len(s) : \E j \in (i + 1)..Len(s) : \E l \in (j + 1)..Len(s) :
                    /\ is_abstract(s[i]) /\ is_winding_inc(s[j])
                    /\ s[i].path_idx = s[j].path_idx
                    /\ s[l].path_idx > s[j].path_idx

UniqueEntries(buf) ==
    \A i \in 1..Len(buf) : \A j \in (i + 1)..Len(buf) :
        /\ (is_abstract(buf[i]) /\ is_abstract(buf[j])) =>
              <<buf[i].cell_id, buf[i].path_idx, buf[i].seg_idx>>
                  # <<buf[j].cell_id, buf[j].path_idx, buf[j].seg_idx>>
        /\ (is_winding_inc(buf[i]) /\ is_winding_inc(buf[j])) =>
              <<buf[i].cell_id, buf[i].path_idx>> # <<buf[j].cell_id, buf[j].path_idx>>

(* C5: in the output of a level and in the leaf buffer no two SEGMENT entries share
   (cell_id, path_idx, seg_idx) and no cell has two WINDING entries of one path. *)
C5_ScatterUniqueness ==
    /\ UniqueEntries(entries_cur)
    /\ UniqueEntries(entries_next)
    /\ UniqueEntries(leaf_entries)

C5_Witness ==
    /\ pc = "cell"
    /\ depth >= 1
    /\ \E i \in 1..Len(entries_next) : \E j \in (i + 1)..Len(entries_next) :
        \E l \in (j + 1)..Len(entries_next) :
          /\ is_abstract(entries_next[i]) /\ is_abstract(entries_next[j])
          /\ is_winding_inc(entries_next[l])
          /\ entries_next[i].cell_id = entries_next[j].cell_id
          /\ entries_next[j].cell_id = entries_next[l].cell_id
          /\ entries_next[i].path_idx = entries_next[j].path_idx
          /\ entries_next[j].path_idx = entries_next[l].path_idx
          /\ entries_next[i].seg_idx # entries_next[j].seg_idx

(* the frontier cells of the current level that the loop body has dealt with *)
Processed == IF pc = "cell" THEN 1..(idx - 1) ELSE {}

frontier_slice(j) == SubSeq0(entries_cur, ranges_cur[j][1], ranges_cur[j][2])

frontier_node(j) == nodes[cells_cur[j] + 1]

Constructible(bbox) == get_child_bounds(bbox, mid_of(bbox)) # None

(* C6: below max_depth a frontier cell is split iff it holds more than min_seg SEGMENT
   entries and its four child boxes are constructible; a cell with at most min_seg
   SEGMENT entries becomes a leaf holding its own entries and gets no children. *)
C6_SplitRule ==
    \A j \in Processed :
        /\ IsInternal(frontier_node(j))
              <=> (seg_count(frontier_slice(j)) > min_seg /\ Constructible(frontier_node(j).bbox))
        /\ seg_count(frontier_slice(j)) <= min_seg =>
              /\ ~IsInternal(frontier_node(j))
              /\ is_leaf(frontier_node(j))
              /\ leaf_slice(frontier_node(j)) = frontier_slice(j)

C6_Witness ==
    /\ pc = "cell" /\ depth >= 1
    /\ \E i \in Processed : \E j \in Processed :
          /\ IsInternal(frontier_node(i))
          /\ is_leaf(frontier_node(j))
          /\ seg_count(frontier_slice(j)) = min_seg
          /\ seg_count(frontier_slice(i)) = min_seg + 1

MidOnEdge(bbox) ==
    \/ mid_of(bbox)[1] = bbox.left \/ mid_of(bbox)[1] = bbox.right
    \/ mid_of(bbox)[2] = bbox.top \/ mid_of(bbox)[2] = bbox.bottom

(* C7: a frontier cell whose split would give a zero-area child box (the midpoint equals
   an edge of the cell) is not split: it is a leaf with its own entries and no children. *)
C7_DegenerateIsLeaf ==
    \A j \in Processed :
        MidOnEdge(frontier_node(j).bbox) =>
            /\ ~IsInternal(frontier_node(j))
            /\ is_leaf(frontier_node(j))
            /\ leaf_slice(frontier_node(j)) = frontier_slice(j)

(* C8: no cell is deeper than max_depth, the cells left on the frontier after the level
   loop are all leaves, no cell at depth max_depth has children, and with max_depth = 0
   the tree is the root alone, its leaf range holding one SEGMENT entry per input
   segment, in input order, with shortcut marker 0. *)
C8_DepthCap ==
    /\ depth <= max_depth
    /\ \A k \in 1..Len(nodes) : nodes[k].depth <= max_depth
    /\ pc = "done" =>
          /\ \A j \in 1..Len(cells_cur) :
                /\ is_leaf(frontier_node(j))
                /\ leaf_slice(frontier_node(j)) = frontier_slice(j)
          /\ \A k \in 1..Len(nodes) : nodes[k].depth = max_depth => ~IsInternal(nodes[k])
          /\ max_depth = 0 =>
                /\ Len(nodes) = 1
                /\ nodes[1].leaf_entry_range = <<0, Len(abs_segments)>>
                /\ Len(leaf_entries) = Len(abs_segments)
                /\ \A k \in 1..Len(leaf_entries) :
                      /\ is_abstract(leaf_entries[k])
                      /\ leaf_entries[k].seg_idx = k - 1
                      /\ leaf_entries[k].path_idx = abs_segments[k].path_idx
                      /\ leaf_entries[k].data = 0

C8_Witness ==
    /\ pc = "done" /\ max_depth >= 1
    /\ \E j \in 1..Len(cells_cur) :
          /\ frontier_node(j).depth = max_depth
          /\ seg_count(frontier_slice(j)) > min_seg
          /\ is_leaf(frontier_node(j))

ParentsOf(id) == {k \in 1..Len(nodes) : IsInternal(nodes[k]) /\ \E pos \in 1..4 : nodes[k].children[pos] = id}

(* C9 as stated: the arena id of a child, and the cell_id of the entries of its slice,
   is 4 * parent_id + child_pos. *)
C9_IdIsFourTimesParent ==
    /\ \A k \in 1..Len(nodes) : IsInternal(nodes[k]) =>
          \A pos \in 0..3 : nodes[k].children[pos + 1] = 4 * nodes[k].id + pos
    /\ \A d \in DeepSlices : \A i \in 1..Len(d.s) :
          d.cell # 0 => \E k \in ParentsOf(d.cell) :
                            d.s[i].cell_id = 4 * nodes[k].id + d.s[i].cell_pos

(* C9 amended: the id of a cell is its index in the arena; the four children of a split
   cell have the consecutive ids first + child_pos recorded in the children array of the
   parent, which is the one cell that lists the child; every entry of a slice carries
   the arena id of its cell and, below the root, the child position of that cell. *)
C9_IdIsArenaIndex ==
    /\ \A k \in 1..Len(nodes) : nodes[k].id = k - 1
    /\ \A k \in 1..Len(nodes) : IsInternal(nodes[k]) =>
          \A pos \in 0..3 :
              /\ nodes[k].children[pos + 1] = nodes[k].children[1] + pos
              /\ nodes[k].children[pos + 1] > nodes[k].id
              /\ nodes[k].children[pos + 1] < Len(nodes)
              /\ nodes[nodes[k].children[pos + 1] + 1].depth = nodes[k].depth + 1
    /\ \A k \in 2..Len(nodes) : Cardinality(ParentsOf(nodes[k].id)) = 1
    /\ \A d \in DeepSlices : \A i \in 1..Len(d.s) :
          /\ d.s[i].cell_id = d.cell
          /\ d.cell # 0 => \E k \in ParentsOf(d.cell) :
                              nodes[k].children[d.s[i].cell_pos + 1] = d.cell

C9_Witness ==
    /\ pc = "done"
    /\ \E k \in Leaves :
          /\ nodes[k].depth = 2
          /\ Len(leaf_slice(nodes[k])) > 0
          /\ \E pk \in ParentsOf(nodes[k].id) :
                nodes[k].id # 4 * nodes[pk].id + leaf_slice(nodes[k])[1].cell_pos

(* C10: AbstractLineSegment::new(p0, p1) and new(p1, p0) have the same coefficients
   (a, b, c), these satisfy a > 0 or (a = 0 and b >= 0), and eval and is_left give the
   same result for both orientations at the sample. *)
C10_CanonicalCoefficients ==
    seg_fwd # None =>
        /\ <<seg_fwd.a, seg_fwd.b, seg_fwd.c>> = <<seg_rev.a, seg_rev.b, seg_rev.c>>
        /\ (seg_fwd.a > 0 \/ (seg_fwd.a = 0 /\ seg_fwd.b >= 0))
        /\ eval(seg_fwd, sample[1], sample[2]) = eval(seg_rev, sample[1], sample[2])
        /\ is_left(seg_fwd, sample[1], sample[2]) = is_left(seg_rev, sample[1], sample[2])

C10_Witness ==
    /\ seg_fwd # None
    /\ p0[2] = p1[2] /\ p0[1] > p1[1]
    /\ seg_fwd.b > 0
    /\ is_left(seg_fwd, sample[1], sample[2])

----------------------------------------------------------------------------
(* Side of a directed segment, from the endpoints alone (screen coordinates, y down):
   the cross product of p1 - p0 and s - p0. *)
Cross(q0, q1, s) == (q1[1] - q0[1]) * (s[2] - q0[2]) - (q1[2] - q0[2]) * (s[1] - q0[1])

LeftOfTraversal(q0, q1, s) == Cross(q0, q1, s) < 0

RightOfTraversal(q0, q1, s) == Cross(q0, q1, s) > 0

(* the sample is strictly at smaller x than the line through q0 and q1 at the sample's
   row; for a horizontal line, strictly at smaller y; never for a zero-length segment *)
SmallerXSide(q0, q1, s) ==
    LET dx == q1[1] - q0[1]
        dy == q1[2] - q0[2]
    IN  IF dy > 0 THEN (s[1] - q0[1]) * dy < (s[2] - q0[2]) * dx
        ELSE IF dy < 0 THEN (s[1] - q0[1]) * dy > (s[2] - q0[2]) * dx
        ELSE IF dx # 0 THEN s[2] < q0[2]
        ELSE FALSE

(* C11 as stated: is_left is true exactly when the sample lies on the left-hand side of
   the segment as traversed from p0 to p1. *)
C11_IsLeftOfTraversal ==
    seg_fwd # None => (is_left(seg_fwd, sample[1], sample[2]) <=> LeftOfTraversal(p0, p1, sample))

(* C11: is_left is true exactly when the sample lies strictly on the smaller-x side of
   the segment's line (smaller y for a horizontal segment), whatever the orientation:
   that is the left of the traversal for a segment traversed upward or horizontally
   rightward, and the right of the traversal for one traversed downward or horizontally
   leftward. *)
C11_IsLeftIsSmallerXSide ==
    seg_fwd # None =>
        /\ is_left(seg_fwd, sample[1], sample[2]) <=> SmallerXSide(p0, p1, sample)
        /\ (p1[2] < p0[2] \/ (p1[2] = p0[2] /\ p1[1] >= p0[1])) =>
              (is_left(seg_fwd, sample[1], sample[2]) <=> LeftOfTraversal(p0, p1, sample))
        /\ (p1[2] > p0[2] \/ (p1[2] = p0[2] /\ p1[1] < p0[1])) =>
              (is_left(seg_fwd, sample[1], sample[2]) <=> RightOfTraversal(p0, p1, sample))

C11_Witness ==
    /\ seg_fwd # None
    /\ p1[2] > p0[2] /\ p1[1] # p0[1]
    /\ is_left(seg_fwd, sample[1], sample[2])
    /\ RightOfTraversal(p0, p1, sample)

----------------------------------------------------------------------------
(* the row y0 is in the half-open vertical band (T, B] of the segment q0 q1 *)
InBand(q0, q1, y0) == Min(q0[2], q1[2]) < y0 /\ y0 <= Max(q0[2], q1[2])

SignFlips(signs) ==
    Cardinality({x \in ProbeXs : x + 1 \in ProbeXs /\ signs[x] * signs[x + 1] < 0})

(* C12: on a row inside the band (T, B] half_open_eval is -1 at the probes left of the
   segment and +1 at the probes on or right of it, so the signs never decrease from left
   to right (at most one flip, exactly one when the first probe is left and the last is
   right); on a row outside the band no two probes have a negative sign product. *)
C12_HalfOpenSigns ==
    pc = "row" =>
        IF InBand(p0, p1, sample[2])
        THEN /\ \A x \in ProbeXs :
                    out[x] = IF SmallerXSide(p0, p1, <<x, sample[2]>>) THEN -1 ELSE 1
             /\ \A x1 \in ProbeXs : \A x2 \in ProbeXs : x1 < x2 => out[x1] <= out[x2]
             /\ SignFlips(out) <= 1
             /\ (out[-2] = -1 /\ out[MaxCoord + 1] = 1) => SignFlips(out) = 1
        ELSE /\ \A x1 \in ProbeXs : \A x2 \in ProbeXs : out[x1] * out[x2] >= 0
             /\ SignFlips(out) = 0

C12_Witness ==
    /\ pc = "row"
    /\ InBand(p0, p1, sample[2])
    /\ out[-2] = -1 /\ out[MaxCoord + 1] = 1
    /\ \E x \in ProbeXs :
          /\ seg_fwd.bbox.left <= x /\ x + 1 < seg_fwd.bbox.right
          /\ out[x] = -1 /\ out[x + 1] = 1

----------------------------------------------------------------------------
(* y of the endpoint with the larger x (of p1 when the x are equal) *)
BaseY(q0, q1) == IF q0[1] > q1[1] THEN q0[2] ELSE q1[2]

(* C13 as stated: hit_shortcut is true iff the segment is not horizontal, sy is strictly
   less than the y of the shortcut base and sx is strictly less than cell.right; it is
   never true for a horizontal segment. *)
C13_HitIffNotHorizontal ==
    pc = "hit" =>
        /\ out.res <=> (p0[2] # p1[2] /\ sample[2] < BaseY(p0, p1) /\ sample[1] < out.cell.right)
        /\ p0[2] = p1[2] => ~out.res

(* C13: hit_shortcut is true iff the segment is not vertical (b = p1.x - p0.x is not
   zero), sy is strictly less than the y of the shortcut base and sx is strictly less
   than cell.right; it is never true for a vertical segment. *)
C13_HitIffNotVertical ==
    pc = "hit" =>
        /\ out.res <=> (p0[1] # p1[1] /\ sample[2] < BaseY(p0, p1) /\ sample[1] < out.cell.right)
        /\ p0[1] = p1[1] => ~out.res

(* a horizontal segment whose shortcut is hit *)
C13_Witness ==
    /\ pc = "hit"
    /\ p0[2] = p1[2] /\ p0[1] # p1[1]
    /\ out.res

----------------------------------------------------------------------------
(* Reference notions for a segment against a box, from the endpoints alone. *)

Orient(a, b, c) == (b[1] - a[1]) * (c[2] - a[2]) - (b[2] - a[2]) * (c[1] - a[1])

Between(a, b, c) ==
    /\ Min(a[1], b[1]) <= c[1] /\ c[1] <= Max(a[1], b[1])
    /\ Min(a[2], b[2]) <= c[2] /\ c[2] <= Max(a[2], b[2])

Sgn(v) == IF v > 0 THEN 1 ELSE IF v < 0 THEN -1 ELSE 0

(* the closed segments a b and c d share a point *)
SegmentsMeet(a, b, c, d) ==
    \/ /\ Sgn(Orient(a, b, c)) * Sgn(Orient(a, b, d)) < 0
       /\ Sgn(Orient(c, d, a)) * Sgn(Orient(c, d, b)) < 0
    \/ Orient(a, b, c) = 0 /\ Between(a, b, c)
    \/ Orient(a, b, d) = 0 /\ Between(a, b, d)
    \/ Orient(c, d, a) = 0 /\ Between(c, d, a)
    \/ Orient(c, d, b) = 0 /\ Between(c, d, b)

(* the segment q0 q1 shares a point with one of the four edges of bb *)
MeetsAnEdge(q0, q1, bb) ==
    LET lt == <<bb.left, bb.top>>
        rt == <<bb.right, bb.top>>
        lb == <<bb.left, bb.bottom>>
        rb == <<bb.right, bb.bottom>>
    IN  \/ SegmentsMeet(q0, q1, lt, rt) \/ SegmentsMeet(q0, q1, rt, rb)
        \/ SegmentsMeet(q0, q1, lb, rb) \/ SegmentsMeet(q0, q1, lt, lb)

StrictlyOutside(q, bb) == q[1] < bb.left \/ q[1] > bb.right \/ q[2] < bb.top \/ q[2] > bb.bottom

(* the midpoint of q0 q1 lies in the open box *)
MidStrictlyInside(q0, q1, bb) ==
    /\ 2 * bb.left < q0[1] + q1[1] /\ q0[1] + q1[1] < 2 * bb.right
    /\ 2 * bb.top < q0[2] + q1[2] /\ q0[2] + q1[2] < 2 * bb.bottom

(* the segment runs from strictly outside bb through the interior of bb *)
PassesThrough(q0, q1, bb) ==
    /\ StrictlyOutside(q0, bb) /\ StrictlyOutside(q1, bb)
    /\ MidStrictlyInside(q0, q1, bb)

(* C14: intersect_with_bb is true iff the finite segment crosses an edge of bb: it is
   true for a segment that runs from outside bb through the interior of bb, true only
   for a segment that shares a point with an edge of bb, and false for a segment
   strictly inside bb or with a bbox disjoint from bb. *)
C14_IntersectIffCrosses ==
    pc = "isect" =>
        /\ PassesThrough(p0, p1, out.bb) => out.res
        /\ out.res => MeetsAnEdge(p0, p1, out.bb)
        /\ (is_inside_bb(seg_fwd, out.bb) \/ Rect_intersect(seg_fwd.bbox, out.bb) = None) => ~out.res

----------------------------------------------------------------------------
(* Scenario S1 *)

InS1 ==
    /\ abs_segments = scene_segments(S1Scene, 1)
    /\ root_bbox = S1Case.box /\ max_depth = S1Case.max_depth /\ min_seg = S1Case.min_seg

(* the entries the cell with arena id `id` received from the subdivision of its parent *)
Received(id) ==
    IF \E d \in DeepSlices : d.cell = id
    THEN (CHOOSE d \in DeepSlices : d.cell = id).s
    ELSE <<>>

SegIdxs(entries) == {entries[j].seg_idx : j \in {i \in 1..Len(entries) : is_abstract(entries[i])}}

(* C15 as stated: in scenario S1 the root is split into four children and each of the
   four children receives exactly one SEGMENT entry. *)
C15_S1OneSegmentPerChild ==
    (InS1 /\ pc = "done") =>
        /\ nodes[1].children = <<1, 2, 3, 4>>
        /\ \A id \in 1..4 : seg_count(Received(id)) = 1

(* C15: in scenario S1 the root is split into four children; the path has two segments
   (the line and the closing segment) and the children TL, BL and BR each receive
   exactly two SEGMENT entries, one per segment, while TR receives no entry. *)
C15_S1TwoSegmentsInThreeChildren ==
    (InS1 /\ Len(nodes) > 1) =>
        /\ Len(abs_segments) = 2
        /\ Len(nodes) = 5
        /\ nodes[1].children = <<1, 2, 3, 4>>
        /\ \A id \in {1, 3, 4} :
              /\ seg_count(Received(id)) = 2
              /\ SegIdxs(Received(id)) = {0, 1}
        /\ Received(2) = <<>>

C15_Witness ==
    /\ InS1 /\ pc = "done"
    /\ Len(nodes) = 5
    /\ is_leaf(nodes[2]) /\ is_leaf(nodes[4]) /\ is_leaf(nodes[5])

(* C16: reversing the direction of every segment leaves the rendered image bit-identical:
   when the second build is done, the pixel buffer equals the one kept from the first
   build (for renders that run to the end in both directions). *)
C16_ReversalKeepsImage ==
    (pc = "done" /\ out # None /\ ~out.panics /\ ~render_panics(FALSE))
        => pixel_buffer = out.pixels

(* C17: every pixel the rasterizer processes is written with the paint of the last path
   whose count is odd there, and with [0,0,0,0] when no path has an odd count. *)
C17_WrittenIsLastOddPaint ==
    pc = "done" =>
        \A k \in Leaves : \A x \in px_cols(nodes[k]) : \A y \in px_rows(nodes[k]) :
            LET o == render_pixel(leaf_slice(nodes[k]), nodes[k].bbox, x, y).out
            IN  pixel_written(nodes[k], x, y) = IF o = 0 THEN Cleared ELSE paint_rgba(o - 1)

(* the cell the driver is about to hand to subdivide_cell_entry, and the records after
   K1, K2 and K3 for it *)
Subdividing == pc = "cell" /\ idx <= Len(cells_cur) /\ splits

K1Out == build_split_entries(parent_bbox, mid_of(parent_bbox), parent_entries, abs_segments)

K2Out == consolidate_winding_inc(K1Out)

K3Out == update_to_global_offset(K2Out)

(* C18: whenever the driver invokes subdivide_cell_entry the K1 output is non-empty, and
   every index K4 writes is strictly below the output size returned by K3. *)
C18_KernelNeverPanics ==
    Subdividing =>
        /\ Len(K1Out) > 0
        /\ ~split_to_cell_entry(K3Out.entries, K3Out.sum).panic

(* a subdivision whose last output slot is a WINDING_INCREMENT entry written by K4 *)
C18_Witness ==
    /\ Subdividing
    /\ K3Out.sum > 1
    /\ is_winding_inc(split_to_cell_entry(K3Out.entries, K3Out.sum).out[K3Out.sum])

(* the entries j <= i of the maximal run of equal path_idx that holds entry i *)
RunUpTo(se, i) == {j \in 1..i : \A k \in j..i : se[k].path_idx = se[i].path_idx}

RECURSIVE SumWinding(_, _, _)
SumWinding(se, js, c) ==
    IF js = {} THEN 0
    ELSE LET j == CHOOSE v \in js : TRUE
         IN  se[j].winding[c] + SumWinding(se, js \ {j}, c)

(* C19: after K2, winding[c] of entry i is the sum of the K1 windings for c of the
   entries j <= i of the same maximal run of equal path_idx. *)
C19_SegmentedPrefixSum ==
    Subdividing =>
        LET k1 == K1Out
            k2 == consolidate_winding_inc(k1)
        IN  \A i \in 1..Len(k1) : \A c \in 1..4 :
                k2[i].winding[c] = SumWinding(k1, RunUpTo(k1, i), c)

(* a cell with two paths: the second run starts after a non-zero accumulated winding of
   the first, and accumulates itself *)
C19_Witness ==
    /\ Subdividing
    /\ \E i \in 2..Len(K1Out) : \E c \in 1..4 :
          /\ K1Out[i].path_idx # K1Out[i - 1].path_idx
          /\ K2Out[i - 1].winding[c] # 0
          /\ K2Out[i - 1].winding[c] # K1Out[i - 1].winding[c]
    /\ \E i \in 2..Len(K1Out) : \E c \in 1..4 :
          /\ K1Out[i].path_idx # K1Out[1].path_idx
          /\ K2Out[i].winding[c] # K1Out[i].winding[c]

(* the output slots of the pairs (child, record): a SEGMENT slot when the record fills
   the child, a WINDING slot when it is the tail of its run with a non-zero winding *)
Slots(se) ==
    {<<r, j, "seg">> : r \in 1..4, j \in 1..Len(se)}
        \cup {<<r, j, "winc">> : r \in 1..4, j \in 1..Len(se)}

SlotUsed(se, s) ==
    IF s[3] = "seg" THEN CellOrder[s[1]] \in se[s[2]].split_info.fill
    ELSE /\ s[2] = Len(se) \/ se[s[2] + 1].path_idx # se[s[2]].path_idx
         /\ se[s[2]].winding[CellOrder[s[1]] + 1] # 0

(* pair (r, j) comes before pair (rc, i): child outermost, then input order *)
Precedes(r, j, rc, i) == r < rc \/ (r = rc /\ j < i)

UsedSlots(se) == {s \in Slots(se) : SlotUsed(se, s)}

OutputsBefore(used, rc, i) ==
    Cardinality({s \in used : Precedes(s[1], s[2], rc, i)})

(* C20: after K3, offsets[c] of record i is the total of seg_out + winc_out over the pairs
   before (c, i), child outermost; the returned value is the total over all pairs; so the
   outputs of each child lie in one block and the blocks follow the child order. *)
C20_GlobalExclusiveOffsets ==
    Subdividing =>
        LET k2 == K2Out
            k3 == update_to_global_offset(k2)
            used == UsedSlots(k2)
            start == [rc \in 1..5 |-> IF rc < 5 THEN k3.entries[1].offsets[CellOrder[rc] + 1]
                                      ELSE k3.sum]
        IN  /\ \A rc \in 1..4 : \A i \in 1..Len(k2) :
                  k3.entries[i].offsets[CellOrder[rc] + 1] = OutputsBefore(used, rc, i)
            /\ k3.sum = Cardinality(used)
            /\ \A rc \in 1..4 : \A i \in 1..Len(k2) :
                  /\ start[rc] <= k3.entries[i].offsets[CellOrder[rc] + 1]
                  /\ k3.entries[i].offsets[CellOrder[rc] + 1]
                        + Cardinality({s \in used : s[1] = rc /\ s[2] = i}) <= start[rc + 1]

(* a subdivision with several records where three children each receive output and a
   later child's block starts after a WINDING slot *)
C20_Witness ==
    /\ Subdividing
    /\ Len(K2Out) >= 3
    /\ \E i \in 1..Len(K2Out) : \E rc \in 1..3 :
          /\ SlotUsed(K2Out, <<rc, i, "winc">>)
          /\ K3Out.entries[1].offsets[CellOrder[rc + 1] + 1] < K3Out.sum
    /\ Cardinality({rc \in 1..4 : \E i \in 1..Len(K2Out) : SlotUsed(K2Out, <<rc, i, "seg">>)}) >= 3

(* the tails of the maximal runs of equal path_idx *)
RunTails(se) == {i \in 1..Len(se) : i = Len(se) \/ se[i + 1].path_idx # se[i].path_idx}

(* the WINDING entries of the output for child cell and path p *)
WindingSlots(flat, cell, p) ==
    {k \in 1..Len(flat) : /\ flat[k].entry_type = WINDING_INCREMENT
                          /\ flat[k].cell_pos = cell
                          /\ flat[k].path_idx = p}

(* C21: for each child and each path-run of the parent slice, K4 emits a WINDING entry
   for that path in the child iff the sum over the run of the K1 windings is non-zero,
   and its data is that sum; a parent WINDING entry gives its data to all four children
   and never a SEGMENT entry. *)
C21_WindingIffRunSumNonZero ==
    Subdividing =>
        LET k1 == K1Out
            k3 == update_to_global_offset(consolidate_winding_inc(k1))
            flat == split_to_cell_entry(k3.entries, k3.sum).out
        IN  /\ \A i \in RunTails(k1) : \A rc \in 1..4 :
                  LET cell == CellOrder[rc]
                      total == SumWinding(k1, RunUpTo(k1, i), cell + 1)
                      slots == WindingSlots(flat, cell, k1[i].path_idx)
                  IN  /\ (slots # {}) <=> (total # 0)
                      /\ Cardinality(slots) <= 1
                      /\ \A k \in slots : flat[k].data = total
            /\ \A i \in 1..Len(k1) :
                  parent_entries[i].entry_type = WINDING_INCREMENT =>
                      /\ \A c \in 1..4 : k1[i].winding[c] = parent_entries[i].data
                      /\ \A k \in 1..Len(flat) :
                            flat[k].entry_type = ABSTRACT => flat[k].seg_idx # k1[i].seg_idx

(* a parent slice with a carried WINDING entry: in some child the run sum differs from
   the tail's own K1 winding and is emitted, in another child a run sums to zero although
   one of its records has a non-zero winding *)
C21_Witness ==
    /\ Subdividing
    /\ \E i \in 1..Len(parent_entries) : parent_entries[i].entry_type = WINDING_INCREMENT
    /\ LET k1 == K1Out
       IN  /\ \E i \in RunTails(k1) : \E c \in 1..4 :
                 /\ SumWinding(k1, RunUpTo(k1, i), c) # 0
                 /\ SumWinding(k1, RunUpTo(k1, i), c) # k1[i].winding[c]
           /\ \E i \in RunTails(k1) : \E c \in 1..4 :
                 /\ SumWinding(k1, RunUpTo(k1, i), c) = 0
                 /\ \E j \in RunUpTo(k1, i) : k1[j].winding[c] # 0

(* C22: the aggregated crossings cross15, cross16 and cross17, computed from the end
   probes, equal cross11 or cross14, cross6 or cross13, and cross1 or cross12. *)
C22_AggregatedCrossings ==
    pc = "edge" =>
        /\ out.e[15] = (out.e[11] \/ out.e[14])
        /\ out.e[16] = (out.e[6] \/ out.e[13])
        /\ out.e[17] = (out.e[1] \/ out.e[12])

(* a segment that crosses the middle row between the centre and the right edge, and
   one that crosses it beyond the right edge *)
C22_Witness ==
    /\ pc = "edge"
    /\ out.e[16]
    /\ \/ out.e[6] /\ ~out.e[13]
       \/ out.e[13] /\ ~out.e[6]

(* the kernel of the subdivision a dispatch belongs to: K1 build split, K2 winding scan
   and carries, K3 tail marking and offset scan and carries, K4 scatter; 0 for the cell
   split and the metadata update *)
KernelOf(kernel) ==
    CASE kernel = "build_split_entries" -> 1
      [] kernel \in {"scan_winding_block", "add_winding_carry"} -> 2
      [] kernel \in {"mark_tail_winding_offsets", "scan_offset_block", "add_offset_carry"} -> 3
      [] kernel = "emit_cell_entries" -> 4
      [] OTHER -> 0

(* C23: within a level the kernels run in the order K1, K2, K3, K4; no kernel of level
   d + 1 starts before K4 of level d has completed; the GPU driver dispatches the next
   level only after the output entry count of the previous level has been read back. *)
C23_KernelOrder ==
    pc = "gpu" =>
        /\ \A i \in 1..Len(gpu.log) : \A j \in 1..Len(gpu.log) :
              (i < j /\ KernelOf(gpu.log[i].kernel) # 0 /\ KernelOf(gpu.log[j].kernel) # 0) =>
                  \/ gpu.log[i].level < gpu.log[j].level
                  \/ /\ gpu.log[i].level = gpu.log[j].level
                     /\ KernelOf(gpu.log[i].kernel) <= KernelOf(gpu.log[j].kernel)
        /\ \A j \in 1..Len(gpu.log) :
              gpu.log[j].level > 0 =>
                  \E i \in 1..(j - 1) : /\ gpu.log[i].kernel = "emit_cell_entries"
                                        /\ gpu.log[i].level = gpu.log[j].level - 1
        /\ \A k \in 1..Len(gpu.queue) :
              gpu.queue[k].level > 0 =>
                  gpu.num_entries = [level |-> gpu.queue[k].level - 1, by |-> "emit_cell_entries"]
        /\ (gpu.pc = "loop" /\ gpu.depth > 0) =>
              gpu.num_entries = [level |-> gpu.depth - 1, by |-> "emit_cell_entries"]

(* two levels have run, each with carry dispatches, and the results were read back *)
C23_Witness ==
    /\ pc = "gpu" /\ gpu.pc = "done"
    /\ \E i \in 1..Len(gpu.log) : gpu.log[i].kernel = "emit_cell_entries" /\ gpu.log[i].level = 1
    /\ \E i \in 1..Len(gpu.log) : gpu.log[i].kernel = "add_winding_carry" /\ gpu.log[i].level = 0
    /\ \E i \in 1..Len(gpu.log) : gpu.log[i].kernel = "add_offset_carry" /\ gpu.log[i].level = 1

(* the dispatches of level d that the device has run, by kernel *)
RanAt(kernel, d) == {i \in DOMAIN gpu.log : gpu.log[i].kernel = kernel /\ gpu.log[i].level = d}

(* C24 as stated: at every level the buffer emit_cell_entries (Kernel 4) writes is a
   different buffer from the one build_split_entries (Kernel 1) reads, and the metadata
   buffer written differs from the metadata buffer read.  The GPU port binds the single
   cell_entries_buffer to both kernels, so the first half fails. *)
C24_NoAliasing ==
    \A i \in DOMAIN gpu.log : \A j \in DOMAIN gpu.log :
        (gpu.log[i].level = gpu.log[j].level) =>
            /\ (gpu.log[i].kernel = "build_split_entries" /\ gpu.log[j].kernel = "emit_cell_entries")
                  => gpu.log[i].reads \cap gpu.log[j].writes = {}
            /\ (gpu.log[i].kernel = "quadcell_split" /\ gpu.log[j].kernel = "update_metadata")
                  => gpu.log[i].reads \cap gpu.log[j].writes = {}

(* C24 amended: at every level the metadata buffer written (by quadcell_split and by
   update_metadata) differs from the metadata buffer the level reads, and the next level
   reads the one this level wrote; the cell entries are overwritten in place, which is safe
   because Kernel 1 has copied them to the split entries and has finished before Kernel 4,
   which reads only the split entries and the offsets, starts. *)
C24_PingPongAndInPlace ==
    /\ \A i \in DOMAIN gpu.log : \A j \in DOMAIN gpu.log :
          (gpu.log[i].level = gpu.log[j].level
             /\ gpu.log[i].kernel \in {"quadcell_split", "build_split_entries"}
             /\ gpu.log[j].kernel \in {"quadcell_split", "update_metadata"})
          => /\ gpu.log[i].reads \cap gpu.log[j].writes \cap {Meta1, Meta2} = {}
             /\ gpu.log[j].writes \cap {Meta1, Meta2} # {}
    /\ \A i \in DOMAIN gpu.log : \A j \in DOMAIN gpu.log :
          (gpu.log[j].level = gpu.log[i].level + 1
             /\ gpu.log[i].kernel = "update_metadata"
             /\ gpu.log[j].kernel = "quadcell_split")
          => gpu.log[i].writes \cap {Meta1, Meta2} = gpu.log[j].reads \cap {Meta1, Meta2}
    /\ \A j \in DOMAIN gpu.log :
          gpu.log[j].kernel = "emit_cell_entries"
          => /\ CellEntries \notin gpu.log[j].reads
             /\ \E i \in 1..(j - 1) :
                   /\ gpu.log[i].kernel = "build_split_entries"
                   /\ gpu.log[i].level = gpu.log[j].level
                   /\ CellEntries \in gpu.log[i].reads
                   /\ gpu.log[j].reads \cap gpu.log[i].writes # {}

C24_Witness ==
    /\ gpu.pc = "done"
    /\ RanAt("update_metadata", 0) # {} /\ RanAt("update_metadata", 1) # {}
    /\ RanAt("emit_cell_entries", 1) # {}
    /\ \E i \in RanAt("build_split_entries", 1) : \E j \in RanAt("emit_cell_entries", 1) :
          CellEntries \in gpu.log[i].reads \cap gpu.log[j].writes

Pow4(n) == Pow2(2 * n)

(* C25 as stated: one subdivision level emits at most four times as many entries as it
   consumes (each input entry splitting into at most 4 child entries), so the count after
   d levels is at most max(1, n) * 4^d.  The first half fails: a record can emit a SEGMENT
   and a WINDING entry for the same child. *)
C25_FourfoldPerLevel ==
    /\ (pc = "cell" /\ idx > Len(cells_cur)) => Len(entries_next) <= 4 * Len(entries_cur)
    /\ Len(entries_cur) <= Max(1, Len(abs_segments)) * Pow4(depth)

(* C25 amended: one level emits at most eight times as many entries as it consumes (every
   input entry gives at most a SEGMENT and a WINDING entry per child), and in every run the
   frontier after d levels, the output being built and the leaf buffer stay within
   max(1, n) * 4^d, max(1, n) * 4^(d+1) and the capacity max(1, n) * 4^max_depth. *)
C25_CapacityBound ==
    /\ (pc = "cell" /\ idx > Len(cells_cur)) => Len(entries_next) <= 8 * Len(entries_cur)
    /\ Len(entries_cur) <= Max(1, Len(abs_segments)) * Pow4(depth)
    /\ pc = "cell" => Len(entries_next) <= Max(1, Len(abs_segments)) * Pow4(depth + 1)
    /\ Len(leaf_entries) <= Max(1, Len(abs_segments)) * Pow4(max_depth)

(* a level that consumed one entry and emitted five *)
C25_Witness ==
    /\ pc = "cell" /\ idx > Len(cells_cur)
    /\ Len(entries_cur) = 1 /\ Len(entries_next) = 5
    /\ depth = 1

(* the writes K4 performs on the K3 output se: <<r, i, kind>> for child CellOrder[r] and
   record i, for the records the dedup skip lets through *)
ScatterWrites(se) ==
    {w \in Slots(se) :
        /\ ~dedup_skip(se, w[2], CellOrder[w[1]] + 1)
        /\ IF w[3] = "seg" THEN has_fill(se[w[2]].split_info, CellOrder[w[1]])
           ELSE is_tail(se, w[2]) /\ se[w[2]].winding[CellOrder[w[1]] + 1] # 0}

(* the index a write goes to *)
WriteIndex(se, w) ==
    IF w[3] = "seg" THEN se[w[2]].offsets[CellOrder[w[1]] + 1]
    ELSE winding_cursor(se[w[2]].offsets[CellOrder[w[1]] + 1],
                        has_fill(se[w[2]].split_info, CellOrder[w[1]]))

(* C26: K4 writes every index of [0, total) exactly once: no slot of the output is left
   EMPTY, none is written by two records, and the dedup skip passes over a record only when
   it has neither a SEGMENT nor a WINDING entry to emit for that child. *)
C26_EverySlotWrittenOnce ==
    Subdividing =>
        LET k3 == K3Out
            se == k3.entries
            writes == ScatterWrites(se)
            res == split_to_cell_entry(se, k3.sum)
        IN  /\ \A x \in 0..(k3.sum - 1) :
                  Cardinality({w \in writes : WriteIndex(se, w) = x}) = 1
            /\ \A w \in writes : WriteIndex(se, w) < k3.sum
            /\ Len(res.out) = k3.sum
            /\ \A k \in 1..Len(res.out) : res.out[k].entry_type # EMPTY
            /\ \A r \in 1..4 : \A i \in 1..Len(se) :
                  dedup_skip(se, i, CellOrder[r] + 1)
                  => /\ ~has_fill(se[i].split_info, CellOrder[r])
                     /\ ~(is_tail(se, i) /\ se[i].winding[CellOrder[r] + 1] # 0)

(* a scatter in which the skip passes over a record, a record that is not skipped emits
   nothing, and another writes both a SEGMENT and a WINDING entry for one child *)
C26_Witness ==
    /\ Subdividing
    /\ LET se == K3Out.entries
       IN  /\ \E r \in 1..4 : \E i \in 1..Len(se) : dedup_skip(se, i, CellOrder[r] + 1)
           /\ \E r \in 1..4 : \E i \in 1..Len(se) :
                 /\ ~dedup_skip(se, i, CellOrder[r] + 1)
                 /\ <<r, i, "seg">> \notin ScatterWrites(se)
                 /\ <<r, i, "winc">> \notin ScatterWrites(se)
           /\ \E r \in 1..4 : \E i \in 1..Len(se) :
                 {<<r, i, "seg">>, <<r, i, "winc">>} \subseteq ScatterWrites(se)

(* the leaf ranges are pairwise disjoint, lie within the leaf buffer and cover it exactly,
   and every entry of a leaf's range carries the arena id of that leaf *)
LeafRangesPartition ==
    /\ \A k \in Leaves :
          /\ 0 <= nodes[k].leaf_entry_range[1]
          /\ nodes[k].leaf_entry_range[1] <= nodes[k].leaf_entry_range[2]
          /\ nodes[k].leaf_entry_range[2] <= Len(leaf_entries)
    /\ \A k \in Leaves : \A l \in Leaves :
          k # l => \/ nodes[k].leaf_entry_range[2] <= nodes[l].leaf_entry_range[1]
                   \/ nodes[l].leaf_entry_range[2] <= nodes[k].leaf_entry_range[1]
    /\ \A x \in 0..(Len(leaf_entries) - 1) :
          Cardinality({k \in Leaves : /\ nodes[k].leaf_entry_range[1] <= x
                                      /\ x < nodes[k].leaf_entry_range[2]}) = 1
    /\ \A k \in Leaves : \A x \in nodes[k].leaf_entry_range[1]..(nodes[k].leaf_entry_range[2] - 1) :
          leaf_entries[x + 1].cell_id = nodes[k].id

(* a step keeps every leaf range that is set and every entry already in the buffer *)
LeafRangesKept ==
    /\ Len(nodes') >= Len(nodes)
    /\ Len(leaf_entries') >= Len(leaf_entries)
    /\ \A k \in Leaves : nodes'[k].leaf_entry_range = nodes[k].leaf_entry_range
    /\ \A x \in 1..Len(leaf_entries) : leaf_entries'[x] = leaf_entries[x]

(* C27: the leaf_entry_range values are pairwise disjoint, lie within the entry buffer and
   cover [0, entries.len()) exactly; every entry in a leaf's range has cell_id equal to the
   arena id of the leaf; a range, once set, and the entries it names are never modified. *)
C27_LeafRangesPartitionBuffer == [](LeafRangesPartition) /\ [][LeafRangesKept]_vars

(* a finished tree with leaves at two depths and three non-empty leaf ranges *)
C27_Witness ==
    /\ pc = "done"
    /\ \E k \in Leaves : \E l \in Leaves : nodes[k].depth = 1 /\ nodes[l].depth = 2
    /\ Cardinality({k \in Leaves : nodes[k].leaf_entry_range[1] < nodes[k].leaf_entry_range[2]}) >= 3

(* C28: every pixel (x, y) that the renderer rasterizes with the slice of leaf L has its
   sample inside the box of L, also when the bounds of L are not integers. *)
C28_PixelInsideLeaf ==
    pc = "done" =>
        \A k \in Leaves : \A x \in px_cols(nodes[k]) : \A y \in px_rows(nodes[k]) :
            /\ nodes[k].bbox.left <= x * Unit /\ x * Unit < nodes[k].bbox.right
            /\ nodes[k].bbox.top <= y * Unit /\ y * Unit < nodes[k].bbox.bottom

(* the outline pixels of a leaf that pass the bounds test of set_pixel *)
OutlinePixels(node) ==
    {<<x, y>> \in (px_left(node)..Min(Max(px_left(node), u32_dec(px_right(node))), 999))
                    \X (px_top(node)..Min(Max(px_top(node), u32_dec(px_bottom(node))), 999)) :
        on_outline(node, x, y)}

(* C29: every write of the CPU renderer, the cell outlines included, goes to the four
   bytes at (y * img_width + x) * 4 of a pixel with x < img_width and y < img_height,
   inside the buffer of img_width * img_height pixels. *)
C29_WritesAddressPixel ==
    pc = "done" =>
        \A k \in Leaves :
            /\ \A x \in px_cols(nodes[k]) : \A y \in px_rows(nodes[k]) :
                  /\ x < img_width /\ y < img_height
                  /\ y * img_width + x < img_width * img_height
            /\ \A q \in OutlinePixels(nodes[k]) :
                  /\ q[1] < img_width /\ q[2] < img_height
                  /\ set_pixel_index(q[1], q[2]) = q[2] * img_width + q[1]
                  /\ set_pixel_index(q[1], q[2]) < img_width * img_height

(* C30: for every max_depth >= 0 the GPU driver reads the metadata back from the buffer
   produced last: for max_depth = 0 the root metadata, without max_depth - 1 going below
   zero; for max_depth >= 1 the buffer that update_metadata of level max_depth - 1 wrote. *)
C30_ReadsLatestMetadata ==
    /\ ~gpu.underflow
    /\ gpu.pc # "panic"
    /\ gpu.pc = "done" =>
          /\ \A b \in {Meta1, Meta2} : gpu.content[b].level <= gpu.returned.metadata.level
          /\ gpu.returned.metadata.level = max_depth - 1
          /\ max_depth = 0 => gpu.returned.metadata.by = "host" /\ gpu.returned.source = Meta1
          /\ max_depth >= 1 =>
                /\ gpu.returned.metadata.by = "update_metadata"
                /\ gpu.returned.source = metadata_out((max_depth - 1) % 2)

====
